---- MODULE Spec2Model ----
(***************************************************************************)
(* Citation numbering and document assembly of auto_paper                  *)
(* (services/vancouver.py), as a state machine.                            *)
(*                                                                         *)
(* A text is a sequence of tokens.  A token is a string that stands for a  *)
(* fixed run of characters of the Python string: the opener "{cite:PMID:", *)
(* the closing brace "}", a blank " ", an identifier chunk "111", a word.  *)
(* No token except "}" contains a closing brace and only the openers       *)
(* contain an opening brace, so CITE_PATTERN can only match from an opener *)
(* token to the first "}" token after it.                                  *)
(***************************************************************************)
EXTENDS Integers, Sequences, FiniteSets, TLC

VARIABLES
    drafts,                      \* Dict[str, str]: section name -> text
    include_abstract_citations,  \* bool argument
    in_text_format,              \* journal.references.in_text_format
    selected,                    \* citation_plan.selected (the citation pool)
    pc,                          \* position in the run
    order,                       \* the section order of the run
    idx,                         \* index in order of the for-loop
    sec_text,                    \* the text CITE_PATTERN.sub works on
    pos,                         \* sub's scan position in sec_text
    new_text,                    \* sub's output so far
    key_to_num,                  \* Dict[str, int]
    next_num,                    \* the next-available counter
    numbered,                    \* Dict[str, str]: the numbered drafts
    refs,                        \* List[str]: the reference list
    assembled,                   \* the assembled body text
    earlier,                     \* what the earlier runs on these inputs returned
    citation,                    \* c, the argument of format_vancouver_reference
    ref,                         \* the string format_vancouver_reference returns
    doc,                         \* text, the argument of winnow_fingerprints
    ngram_k,                     \* k, the shingle length in tokens
    window,                      \* window, the winnowing window
    fps,                         \* the set winnow_fingerprints returns
    fp_a,                        \* a, the first argument of jaccard
    fp_b,                        \* b, the second argument of jaccard
    score,                       \* the value jaccard returns
    generated,                   \* Dict[str, str] of similarity_report, in items() order
    sources,                     \* Dict[str, str] of similarity_report, in items() order
    threshold,                   \* the threshold of similarity_report
    gi,                          \* index of the outer for-loop
    si,                          \* index of the inner for-loop
    results,                     \* List[SimilarityResult]
    max_count,                   \* journal.references.max_count
    plan_max_count,              \* citation_plan.max_count
    warnings,                    \* the list check_reference_count returns
    other,                       \* the frame of a second, suspended run
    turn,                        \* which of two runs is the running one
    attempt,                     \* the loop variable of chat_text and chat_json
    sent,                        \* the requests posted so far, oldest first
    last_err,                    \* last_err, the exception caught last
    slept,                       \* the seconds slept so far, in halves
    outcome                      \* what the chat call returned or raised

vars == <<drafts, include_abstract_citations, in_text_format, selected, pc,
          order, idx, sec_text, pos, new_text, key_to_num, next_num,
          numbered, refs, assembled, earlier, citation, ref,
          doc, ngram_k, window, fps, fp_a, fp_b, score,
          generated, sources, threshold, gi, si, results,
          max_count, plan_max_count, warnings, other, turn,
          attempt, sent, last_err, slept, outcome>>

\* the variables of similarity_report
rep_vars == <<generated, sources, threshold, gi, si, results>>

\* the variables of check_reference_count
qa_vars == <<max_count, plan_max_count, warnings>>

\* the variables of a second run beside the first
two_vars == <<other, turn>>

\* the variables of the chat client
llm_vars == <<attempt, sent, last_err, slept, outcome>>

\* the variables added for the operations outside the assembly
ext_vars == <<rep_vars, qa_vars, two_vars, llm_vars>>

\* the variables of the library functions that are called on their own
lib_vars == <<citation, ref, doc, ngram_k, window, fps, fp_a, fp_b, score, ext_vars>>

\* the variables of the similarity functions
sim_vars == <<doc, ngram_k, window, fps, fp_a, fp_b, score>>

----------------------------------------------------------------------------
(* Bounds of the inputs.                                                   *)

\* pieces of text in all the section drafts together
MaxPieces == 3
\* sections present in drafts
MaxSections == 2
\* entries of citation_plan.selected
MaxPool == 2
\* pieces of text in one section draft, where drafts may have any key
MaxPiecesPerSection == 1
\* calls of the assembly on the same inputs
MaxRuns == 2
\* authors of a record that is formatted on its own
MaxAuthorCount == 8
\* the fingerprint sets given to jaccard are subsets of 1..MaxFingerprint
MaxFingerprint == 4
\* characters of a text that is fingerprinted
MaxDocLen == 6
\* the shingle length k is in 1..MaxK
MaxK == 2
\* the winnowing window is in 1..MaxWindow
MaxWindow == 3
\* pieces of text and pool entries together
MaxInput == 3

----------------------------------------------------------------------------
(* Strings.                                                                *)

OpenPMID == "{cite:PMID:"
OpenDOI == "{cite:DOI:"
\* a tag whose kind is neither PMID nor DOI: literal text for CITE_PATTERN
OpenOther == "{cite:ISBN:"
Close == "}"

EmptyMap == <<>>

\* what str.strip() and \s take for whitespace
IsSpace(t) == t \in {" ", "\n\n"}

RECURSIVE LStrip(_)
LStrip(s) ==
    IF s # <<>> /\ IsSpace(Head(s)) THEN LStrip(Tail(s)) ELSE s

RECURSIVE RStrip(_)
RStrip(s) ==
    IF s # <<>> /\ IsSpace(s[Len(s)]) THEN RStrip(SubSeq(s, 1, Len(s) - 1)) ELSE s

\* str.strip()
Strip(s) == RStrip(LStrip(s))

Digit == <<"0", "1", "2", "3", "4", "5", "6", "7", "8", "9">>

\* str(n) of a natural number, as its decimal digits
RECURSIVE Str(_)
Str(n) ==
    IF n < 10 THEN <<Digit[n + 1]>> ELSE Str(n \div 10) \o <<Digit[(n % 10) + 1]>>

\* sep.join(parts)
RECURSIVE Join(_, _)
Join(parts, sep) ==
    IF parts = <<>> THEN <<>>
    ELSE IF Len(parts) = 1 THEN parts[1]
    ELSE parts[1] \o sep \o Join(Tail(parts), sep)

\* re.sub(r"\s{2,}", " ", s): every run of two or more blanks becomes one " "
RECURSIVE CollapseSpaces(_)
CollapseSpaces(s) ==
    IF s = <<>> THEN <<>>
    ELSE IF IsSpace(Head(s)) /\ Len(s) >= 2 /\ IsSpace(s[2])
         THEN CollapseSpaces(<<" ">> \o LStrip(s))
         ELSE <<Head(s)>> \o CollapseSpaces(Tail(s))

----------------------------------------------------------------------------
(* CITE_PATTERN = \{cite:(PMID|DOI):([^}]+)\}                              *)

\* group 1 of a match that starts with opener token t
KindOf(t) == IF t = OpenPMID THEN "PMID" ELSE "DOI"

\* a pattern that takes any kind, \{cite:(\w+):([^}]+)\}
IsOpenerAnyKind(t) == t \in {OpenPMID, OpenDOI, OpenOther}

\* the kinds the pattern allows
IsOpener(t) == t \in {OpenPMID, OpenDOI}

\* the index of the first "}" after index i, or 0
FirstClose(text, i) ==
    LET js == {j \in (i + 1)..Len(text) : text[j] = Close}
    IN IF js = {} THEN 0 ELSE CHOOSE j \in js : \A k \in js : j <= k

\* whether the pattern matches at index i: an opener, then one or more
\* tokens other than "}", then "}"
MatchAt(text, i) ==
    /\ i \in 1..Len(text)
    /\ IsOpener(text[i])
    /\ FirstClose(text, i) > i + 1

\* the start of the leftmost match at or after index from, or 0
NextMatch(text, from) ==
    LET is == {i \in from..Len(text) : MatchAt(text, i)}
    IN IF is = {} THEN 0 ELSE CHOOSE i \in is : \A k \in is : i <= k

\* group 2 of the match at i
IdentAt(text, i) == SubSeq(text, i + 1, FirstClose(text, i) - 1)

\* a key that keeps the blanks around the identifier
KeyUntrimmed(kind, ident) == <<kind, ":">> \o ident

\* _key(kind, ident) = f"{kind}:{ident.strip()}"
Key(kind, ident) == <<kind, ":">> \o Strip(ident)

\* a repl that knows the bracket style only
MarkerBracketOnly(fmt, num) == <<"[">> \o Str(num) \o <<"]">>

\* a repl that writes the number as a placeholder again
MarkerAsPlaceholder(fmt, num) == <<OpenPMID>> \o Str(num) \o <<Close>>

\* repl's return value: f"[{num}]" if bracket else f"({num})"
Marker(fmt, num) ==
    IF fmt = "bracket" THEN <<"[">> \o Str(num) \o <<"]">>
    ELSE <<"(">> \o Str(num) \o <<")">>

----------------------------------------------------------------------------
(* Citation records and format_vancouver_reference.  A string field that   *)
(* is None or "" is <<>>; year is an int, 0 for None.                      *)

Citation(pmid, doi, title) ==
    [pmid |-> pmid, doi |-> doi, title |-> title, authors |-> <<>>,
     journal |-> <<>>, journal_iso_abbrev |-> <<>>, year |-> 0,
     volume |-> <<>>, issue |-> <<>>, pages |-> <<>>, url |-> <<>>]

\* how many authors are listed before "et al."
MaxAuthors == 6

\* an author list that is never cut
FormatAuthorsAll(authors) == Join(authors, <<", ">>) \o <<".">>

\* _format_authors
FormatAuthors(authors) ==
    IF authors = <<>> THEN <<>>
    ELSE IF Len(authors) <= MaxAuthors THEN Join(authors, <<", ">>) \o <<".">>
    ELSE Join(SubSeq(authors, 1, MaxAuthors), <<", ">>) \o <<", et al.">>

\* a title that keeps its periods
KeepDots(s) == s

\* str.rstrip(".")
RECURSIVE RStripDots(_)
RStripDots(s) ==
    IF s # <<>> /\ s[Len(s)] = "." THEN RStripDots(SubSeq(s, 1, Len(s) - 1)) ELSE s

\* a parts list whose year block always has the colon of the pages
RefPartsColonAlways(c) ==
    LET a == FormatAuthors(c.authors)
        title == RStripDots(c.title)
        journal == IF c.journal_iso_abbrev # <<>> THEN c.journal_iso_abbrev ELSE c.journal
        year == IF c.year # 0 THEN Str(c.year) ELSE <<>>
        vol_issue == IF c.issue # <<>>
                     THEN (IF c.volume # <<>>
                           THEN c.volume \o <<"(">> \o c.issue \o <<")">>
                           ELSE <<"(">> \o c.issue \o <<")">>)
                     ELSE c.volume
    IN  (IF a # <<>> THEN <<a>> ELSE <<>>)
        \o (IF title # <<>> THEN <<title \o <<".">>>> ELSE <<>>)
        \o (IF journal # <<>> THEN <<journal \o <<".">>>> ELSE <<>>)
        \o (IF year # <<>>
            THEN <<year \o <<";">> \o vol_issue \o <<":">> \o c.pages \o <<".">>>>
            ELSE <<>>)
        \o (IF c.doi # <<>> THEN <<<<"doi:">> \o c.doi \o <<".">>>>
            ELSE IF c.url # <<>> THEN <<c.url>> ELSE <<>>)

\* the parts list of format_vancouver_reference, before the join
RefParts(c) ==
    LET a == FormatAuthors(c.authors)
        title == RStripDots(c.title)
        journal == IF c.journal_iso_abbrev # <<>> THEN c.journal_iso_abbrev ELSE c.journal
        year == IF c.year # 0 THEN Str(c.year) ELSE <<>>
        vol_issue == IF c.issue # <<>>
                     THEN (IF c.volume # <<>>
                           THEN c.volume \o <<"(">> \o c.issue \o <<")">>
                           ELSE <<"(">> \o c.issue \o <<")">>)
                     ELSE c.volume
    IN  (IF a # <<>> THEN <<a>> ELSE <<>>)
        \o (IF title # <<>> THEN <<title \o <<".">>>> ELSE <<>>)
        \o (IF journal # <<>> THEN <<journal \o <<".">>>> ELSE <<>>)
        \o (IF year # <<>>
            THEN (IF c.pages # <<>>
                  THEN <<year \o <<";">> \o vol_issue \o <<":">> \o c.pages \o <<".">>>>
                  ELSE <<year \o <<";">> \o vol_issue \o <<".">>>>)
            ELSE <<>>)
        \o (IF c.doi # <<>> THEN <<<<"doi:">> \o c.doi \o <<".">>>>
            ELSE IF c.url # <<>> THEN <<c.url>> ELSE <<>>)

\* the parts whose text is not blank
RECURSIVE NonBlank(_)
NonBlank(parts) ==
    IF parts = <<>> THEN <<>>
    ELSE (IF Strip(Head(parts)) # <<>> THEN <<Head(parts)>> ELSE <<>>)
         \o NonBlank(Tail(parts))

\* format_vancouver_reference
FormatVancouverReference(c) ==
    Strip(CollapseSpaces(Join(NonBlank(RefParts(c)), <<" ">>)))

----------------------------------------------------------------------------
(* number_drafts_and_build_references and                                  *)
(* assemble_main_text_and_references, step by step.                        *)

\* order, before Abstract is prefixed
BaseOrder == <<"Introduction", "Methods", "Results", "Discussion", "Conclusion">>

\* a check that takes a text of blanks for a section to process
SkippedUnlessEmpty(d, sec) ==
    IF sec \notin DOMAIN d THEN TRUE ELSE d[sec] = <<>>

\* line 112: the section is skipped
Skipped(d, sec) ==
    IF sec \notin DOMAIN d THEN TRUE
    ELSE IF d[sec] = <<>> THEN TRUE
    ELSE Strip(d[sec]) = <<>>

\* a run that puts the Abstract after the other sections
BuildOrderAbstractLast ==
    /\ pc = "start"
    /\ order' = IF include_abstract_citations /\ "Abstract" \in DOMAIN drafts
                THEN BaseOrder \o <<"Abstract">> ELSE BaseOrder
    /\ key_to_num' = EmptyMap
    /\ next_num' = 1
    /\ numbered' = EmptyMap
    /\ idx' = 1
    /\ pc' = "loop"
    /\ UNCHANGED <<lib_vars, earlier, drafts, include_abstract_citations, in_text_format, selected,
                   sec_text, pos, new_text, refs, assembled>>

\* a run that takes the Abstract in whenever drafts has one
BuildOrderIgnoreFlag ==
    /\ pc = "start"
    /\ order' = IF "Abstract" \in DOMAIN drafts
                THEN <<"Abstract">> \o BaseOrder ELSE BaseOrder
    /\ key_to_num' = EmptyMap
    /\ next_num' = 1
    /\ numbered' = EmptyMap
    /\ idx' = 1
    /\ pc' = "loop"
    /\ UNCHANGED <<lib_vars, earlier, drafts, include_abstract_citations, in_text_format, selected,
                   sec_text, pos, new_text, refs, assembled>>

\* a run whose counter is kept between calls
BuildOrderKeepCounter ==
    /\ pc = "start"
    /\ order' = IF include_abstract_citations /\ "Abstract" \in DOMAIN drafts
                THEN <<"Abstract">> \o BaseOrder ELSE BaseOrder
    /\ key_to_num' = EmptyMap
    /\ next_num' = IF next_num = 0 THEN 1 ELSE next_num
    /\ numbered' = EmptyMap
    /\ idx' = 1
    /\ pc' = "loop"
    /\ UNCHANGED <<lib_vars, earlier, drafts, include_abstract_citations, in_text_format, selected,
                   sec_text, pos, new_text, refs, assembled>>

\* lines 103-109: the order is built; the map, the counter and the numbered
\* drafts are created for this run
BuildOrder ==
    /\ pc = "start"
    /\ order' = IF include_abstract_citations /\ "Abstract" \in DOMAIN drafts
                THEN <<"Abstract">> \o BaseOrder ELSE BaseOrder
    /\ key_to_num' = EmptyMap
    /\ next_num' = 1
    /\ numbered' = EmptyMap
    /\ idx' = 1
    /\ pc' = "loop"
    /\ UNCHANGED <<lib_vars, earlier, drafts, include_abstract_citations, in_text_format, selected,
                   sec_text, pos, new_text, refs, assembled>>

\* lines 111-113: a section that is absent or blank is passed over
SkipSection ==
    /\ pc = "loop"
    /\ idx <= Len(order)
    /\ Skipped(drafts, order[idx])
    /\ idx' = idx + 1
    /\ UNCHANGED <<lib_vars, earlier, drafts, include_abstract_citations, in_text_format, selected, pc,
                   order, sec_text, pos, new_text, key_to_num, next_num, numbered,
                   refs, assembled>>

\* lines 114-115: the section's text is stripped and handed to
\* re_number_citations, whose CITE_PATTERN.sub starts at the left
BeginSection ==
    /\ pc = "loop"
    /\ idx <= Len(order)
    /\ ~Skipped(drafts, order[idx])
    /\ sec_text' = Strip(drafts[order[idx]])
    /\ pos' = 1
    /\ new_text' = <<>>
    /\ pc' = "sub"
    /\ UNCHANGED <<lib_vars, earlier, drafts, include_abstract_citations, in_text_format, selected,
                   order, idx, key_to_num, next_num, numbered, refs, assembled>>

\* a repl that binds the key anew on every marker
BindAnew(k2n, k, n) == (k :> n) @@ k2n

\* a repl that advances the counter on every marker
AdvanceAlways(k2n, k, n) == n + 1

\* the key_to_num dict after repl has seen key k (lines 82-83)
Bind(k2n, k, n) == IF k \in DOMAIN k2n THEN k2n ELSE k2n @@ (k :> n)

\* the counter after repl has seen key k (lines 82-84)
Advance(k2n, k, n) == IF k \in DOMAIN k2n THEN n ELSE n + 1

\* lines 78-88: sub finds the next match and calls repl on it
Repl ==
    /\ pc = "sub"
    /\ NextMatch(sec_text, pos) # 0
    /\ LET i == NextMatch(sec_text, pos)
           k == Key(KindOf(sec_text[i]), IdentAt(sec_text, i))
           k2n == Bind(key_to_num, k, next_num)
       IN /\ key_to_num' = k2n
          /\ next_num' = Advance(key_to_num, k, next_num)
          /\ new_text' = new_text \o SubSeq(sec_text, pos, i - 1)
                                  \o Marker(in_text_format, k2n[k])
          /\ pos' = FirstClose(sec_text, i) + 1
    /\ UNCHANGED <<lib_vars, earlier, drafts, include_abstract_citations, in_text_format, selected, pc,
                   order, idx, sec_text, numbered, refs, assembled>>

\* lines 88-89 and 118: no match is left; sub copies the rest of the text
\* and the result is stored under the section's name
EndSection ==
    /\ pc = "sub"
    /\ NextMatch(sec_text, pos) = 0
    /\ new_text' = new_text \o SubSeq(sec_text, pos, Len(sec_text))
    /\ numbered' = [s \in DOMAIN numbered \cup {order[idx]} |->
                      IF s = order[idx] THEN new_text' ELSE numbered[s]]
    /\ pos' = Len(sec_text) + 1
    /\ idx' = idx + 1
    /\ pc' = "loop"
    /\ UNCHANGED <<lib_vars, earlier, drafts, include_abstract_citations, in_text_format, selected,
                   order, sec_text, key_to_num, next_num, refs, assembled>>

\* a lookup that indexes the records by PMID only
RECURSIVE KeyToCitationPmidOnly(_, _)
KeyToCitationPmidOnly(sel, n) ==
    IF n = 0 THEN EmptyMap
    ELSE LET c == sel[n].citation
             m0 == KeyToCitationPmidOnly(sel, n - 1)
         IN IF c.pmid # <<>> THEN (Key("PMID", c.pmid) :> c) @@ m0 ELSE m0

\* a lookup in which the first entry under a key stays
RECURSIVE KeyToCitationFirstWins(_, _)
KeyToCitationFirstWins(sel, n) ==
    IF n = 0 THEN EmptyMap
    ELSE LET c == sel[n].citation
             m0 == KeyToCitationFirstWins(sel, n - 1)
             m1 == IF c.pmid # <<>>
                   THEN m0 @@ (Key("PMID", c.pmid) :> c) ELSE m0
         IN IF c.doi # <<>> THEN m1 @@ (Key("DOI", c.doi) :> c) ELSE m1

\* lines 121-127: the identity -> record lookup after the first n pool
\* entries; a later entry overwrites an earlier one under the same key
RECURSIVE KeyToCitation(_, _)
KeyToCitation(sel, n) ==
    IF n = 0 THEN EmptyMap
    ELSE LET c == sel[n].citation
             m0 == KeyToCitation(sel, n - 1)
             m1 == IF c.pmid # <<>>
                   THEN (Key("PMID", c.pmid) :> c) @@ m0 ELSE m0
         IN IF c.doi # <<>> THEN (Key("DOI", c.doi) :> c) @@ m1 ELSE m1

\* a sort by descending number
RECURSIVE SortedDescending(_)
SortedDescending(S) ==
    IF S = {} THEN <<>>
    ELSE LET m == CHOOSE x \in S : \A y \in S : x >= y
         IN <<m>> \o SortedDescending(S \ {m})

\* sorted(S) of a set of integers
RECURSIVE Sorted(_)
Sorted(S) ==
    IF S = {} THEN <<>>
    ELSE LET m == CHOOSE x \in S : \A y \in S : x <= y
         IN <<m>> \o Sorted(S \ {m})

\* line 129: num_to_key[num]; of several keys with one number the dict
\* comprehension keeps the one inserted last, and there is never more than one
NumToKey(k2n, num) == CHOOSE k \in DOMAIN k2n : k2n[k] = num

MissingNote == "(Missing metadata; please fix in CitationPlan)."

\* lines 134-138: the reference string of number num
RefEntry(k2n, k2c, num) ==
    LET key == NumToKey(k2n, num)
    IN IF key \in DOMAIN k2c
       THEN Str(num) \o <<".", " ">> \o FormatVancouverReference(k2c[key])
       ELSE Str(num) \o <<".", " ">> \o key \o <<" ", MissingNote>>

\* lines 131-138: the reference list, by ascending number
References(k2n, sel) ==
    LET nums == Sorted({k2n[k] : k \in DOMAIN k2n})
        k2c == KeyToCitation(sel, Len(sel))
    IN [i \in 1..Len(nums) |-> RefEntry(k2n, k2c, nums[i])]

\* lines 120-140: the loop is over; the lookup and the reference list are
\* built and the function returns
BuildReferences ==
    /\ pc = "loop"
    /\ idx > Len(order)
    /\ refs' = References(key_to_num, selected)
    /\ pc' = "returned"
    /\ UNCHANGED <<lib_vars, earlier, drafts, include_abstract_citations, in_text_format, selected,
                   order, idx, sec_text, pos, new_text, key_to_num, next_num,
                   numbered, assembled>>

\* a part without its heading
PartNoHeading(sec, text) == text

\* line 158 and 162: f"{sec}\n\n{numbered[sec]}"
Part(sec, text) == <<sec, "\n\n">> \o text

\* lines 156-162: the parts list
RECURSIVE BodyParts(_, _)
BodyParts(secs, num) ==
    IF secs = <<>> THEN <<>>
    ELSE (IF Head(secs) \in DOMAIN num
          THEN <<Part(Head(secs), num[Head(secs)])>> ELSE <<>>)
         \o BodyParts(Tail(secs), num)

\* lines 156-164: the assembled body
Assembled(include, num) ==
    Strip(Join((IF include /\ "Abstract" \in DOMAIN num
                THEN <<Part("Abstract", num["Abstract"])>> ELSE <<>>)
               \o BodyParts(BaseOrder, num), <<"\n\n">>))

\* lines 156-165 of assemble_main_text_and_references
Assemble ==
    /\ pc = "returned"
    /\ assembled' = Assembled(include_abstract_citations, numbered)
    /\ pc' = "done"
    /\ UNCHANGED <<lib_vars, earlier, drafts, include_abstract_citations, in_text_format, selected,
                   order, idx, sec_text, pos, new_text, key_to_num, next_num,
                   numbered, refs>>

----------------------------------------------------------------------------
(* The inputs of a run.                                                    *)

\* the keys a drafts dict is given here
DraftNames == {"Abstract", "Introduction", "Methods"}

\* the pieces a draft text is made of: well-formed markers (one with blanks
\* around the identifier), a tag of another kind, a tag with an empty
\* identifier, a tag that is not closed, a word and a blank
Pieces ==
    { <<OpenPMID, "111", Close>>,
      <<OpenPMID, " ", "111", " ", Close>>,
      <<OpenDOI, "111", Close>>,
      <<OpenOther, "111", Close>>,
      <<OpenPMID, Close>>,
      <<OpenPMID, "111">>,
      <<"w">>,
      <<" ">> }

RECURSIVE Flatten(_)
Flatten(ps) == IF ps = <<>> THEN <<>> ELSE Head(ps) \o Flatten(Tail(ps))

PieceSeqs == UNION {[1..m -> Pieces] : m \in 0..MaxPieces}

RECURSIVE SumLen(_, _)
SumLen(f, S) ==
    IF S = {} THEN 0
    ELSE LET x == CHOOSE y \in S : TRUE IN Len(f[x]) + SumLen(f, S \ {x})

\* the pool entries: CitationUse records whose citation has a PMID, a DOI,
\* both or neither, and a second record with the same PMID
PoolEntries ==
    { [citation |-> Citation(pmid, doi, <<"A">>)] :
        pmid \in {<<>>, <<"111">>}, doi \in {<<>>, <<"111">>} }
    \cup { [citation |-> Citation(<<" ", "111">>, <<>>, <<"B", ".">>)] }

Pools == UNION {[1..m -> PoolEntries] : m \in 0..MaxPool}

\* no similarity function is called
SimIdle ==
    /\ doc = <<>>
    /\ ngram_k = 0
    /\ window = 0
    /\ fps = {}
    /\ fp_a = {}
    /\ fp_b = {}
    /\ score = [num |-> 0, den |-> 1]

\* similarity_report is not called
RepIdle ==
    /\ generated = <<>>
    /\ sources = <<>>
    /\ threshold = [num |-> 0, den |-> 1]
    /\ gi = 0
    /\ si = 0
    /\ results = <<>>

\* models.py lines 15, 142: the default of both max_count fields
DefaultMaxCount == 30

\* check_reference_count is not called, the maxima are the defaults
QaIdle ==
    /\ max_count = DefaultMaxCount
    /\ plan_max_count = DefaultMaxCount
    /\ warnings = <<>>

\* there is no second run
TwoIdle ==
    /\ other = <<>>
    /\ turn = 0

\* the chat client is not called
LlmIdle ==
    /\ attempt = 0
    /\ sent = <<>>
    /\ last_err = "None"
    /\ slept = 0
    /\ outcome = [kind |-> "none", value |-> "None"]

\* none of the operations outside the assembly is called
ExtIdle == RepIdle /\ QaIdle /\ TwoIdle /\ LlmIdle

\* no library function is called on its own
LibIdle ==
    /\ citation = Citation(<<>>, <<>>, <<>>)
    /\ ref = <<>>
    /\ SimIdle
    /\ ExtIdle

\* no assembly is running
RunIdle ==
    /\ drafts = EmptyMap
    /\ include_abstract_citations = FALSE
    /\ in_text_format = "bracket"
    /\ selected = <<>>
    /\ order = <<>>
    /\ idx = 0
    /\ sec_text = <<>>
    /\ pos = 0
    /\ new_text = <<>>
    /\ key_to_num = EmptyMap
    /\ next_num = 0
    /\ numbered = EmptyMap
    /\ refs = <<>>
    /\ assembled = <<>>
    /\ earlier = <<>>

RunStart ==
    /\ \E S \in SUBSET DraftNames :
         /\ Cardinality(S) <= MaxSections
         /\ \E f \in [S -> PieceSeqs] :
              /\ SumLen(f, S) <= MaxPieces
              /\ drafts = [s \in S |-> Flatten(f[s])]
              /\ selected \in {p \in Pools : Len(p) + SumLen(f, S) <= MaxInput}
    /\ include_abstract_citations \in BOOLEAN
    /\ in_text_format \in {"bracket", "paren"}
    /\ pc = "start"
    /\ order = <<>>
    /\ idx = 0
    /\ sec_text = <<>>
    /\ pos = 0
    /\ new_text = <<>>
    /\ key_to_num = EmptyMap
    /\ next_num = 0
    /\ numbered = EmptyMap
    /\ refs = <<>>
    /\ assembled = <<>>
    /\ earlier = <<>>

\* a run of the assembly on drafts and a citation pool
Init == RunStart /\ LibIdle

\* the keys of a drafts dict that is not restricted to the manuscript
\* sections: Dict[str, str] takes any name, here a SectionName that the
\* assembly does not know
AnyDraftNames == DraftNames \cup {"CoverLetter"}

\* a run on drafts with any keys
InitAnyNames ==
    /\ \E S \in SUBSET AnyDraftNames :
         /\ Cardinality(S) <= MaxSections
         /\ \E f \in [S -> {ps \in PieceSeqs : Len(ps) <= MaxPiecesPerSection}] :
              drafts = [s \in S |-> Flatten(f[s])]
    /\ selected \in {p \in Pools : Len(p) <= 1}
    /\ include_abstract_citations \in BOOLEAN
    /\ in_text_format \in {"bracket", "paren"}
    /\ pc = "start"
    /\ order = <<>>
    /\ idx = 0
    /\ sec_text = <<>>
    /\ pos = 0
    /\ new_text = <<>>
    /\ key_to_num = EmptyMap
    /\ next_num = 0
    /\ numbered = EmptyMap
    /\ refs = <<>>
    /\ assembled = <<>>
    /\ earlier = <<>>
    /\ LibIdle

\* the caller assembles again with the same arguments, as the application
\* does when it calls number_drafts_and_build_references and then
\* assemble_main_text_and_references; what the finished call left in its
\* variables stays as it is
Rerun ==
    /\ pc = "done"
    /\ Len(earlier) < MaxRuns - 1
    /\ earlier' = Append(earlier, [numbered |-> numbered, refs |-> refs,
                                    assembled |-> assembled])
    /\ pc' = "start"
    /\ UNCHANGED <<lib_vars, drafts, include_abstract_citations, in_text_format,
                   selected, order, idx, sec_text, pos, new_text, key_to_num,
                   next_num, numbered, refs, assembled>>

\* the author names, in the order of the record
AuthorNames ==
    <<<<"A1">>, <<"A2">>, <<"A3">>, <<"A4">>, <<"A5">>, <<"A6">>, <<"A7">>,
      <<"A8">>, <<"A9">>, <<"A10">>>>

\* the titles: absent, plain, with trailing periods, with a leading blank,
\* with two blanks inside, and of a period only
Titles ==
    { <<>>, <<"T">>, <<"T", ".", ".">>, <<" ", "T">>, <<"A", " ", " ", "B">>,
      <<".">> }

\* the records format_vancouver_reference is called on: every optional
\* field present or absent
Records ==
    { [pmid |-> pmid, doi |-> doi, title |-> title,
       authors |-> SubSeq(AuthorNames, 1, n),
       journal |-> journal, journal_iso_abbrev |-> iso, year |-> year,
       volume |-> volume, issue |-> issue, pages |-> pages, url |-> url] :
        pmid \in {<<>>, <<"111">>}, doi \in {<<>>, <<"10.1/x">>},
        title \in Titles, n \in 0..MaxAuthorCount,
        journal \in {<<>>, <<"Journal">>}, iso \in {<<>>, <<"J">>},
        year \in {0, 2020}, volume \in {<<>>, <<"v12">>},
        issue \in {<<>>, <<"i3">>}, pages \in {<<>>, <<"p45-50">>},
        url \in {<<>>, <<"http://u">>} }

\* a call of format_vancouver_reference on a record
InitFormat ==
    /\ citation \in Records
    /\ ref = <<>>
    /\ pc = "format"
    /\ SimIdle
    /\ ExtIdle
    /\ RunIdle

\* lines 21-62: format_vancouver_reference(c) returns
FormatReference ==
    /\ pc = "format"
    /\ ref' = FormatVancouverReference(citation)
    /\ pc' = "formatted"
    /\ UNCHANGED <<citation, sim_vars, ext_vars, earlier, drafts, include_abstract_citations,
                   in_text_format, selected, order, idx, sec_text, pos, new_text,
                   key_to_num, next_num, numbered, refs, assembled>>

----------------------------------------------------------------------------
(* services/similarity.py: jaccard.  A float that is a quotient of two     *)
(* small integers is the record of its numerator and denominator; 0.0 is   *)
(* 0/1.                                                                    *)

Zero == [num |-> 0, den |-> 1]

\* a score that divides by the sum of the sizes
JaccardSumOfSizes(a, b) ==
    IF a = {} /\ b = {} THEN Zero
    ELSE [num |-> Cardinality(a \cap b), den |-> Cardinality(a) + Cardinality(b)]

\* lines 52-57: jaccard(a, b)
Jaccard(a, b) ==
    IF a = {} /\ b = {} THEN Zero
    ELSE LET inter == Cardinality(a \cap b)
             union == Cardinality(a \cup b)
         IN IF union # 0 THEN [num |-> inter, den |-> union] ELSE Zero

\* a call of jaccard on two sets of integers
InitJaccard ==
    /\ fp_a \in SUBSET (1..MaxFingerprint)
    /\ fp_b \in SUBSET (1..MaxFingerprint)
    /\ score = Zero
    /\ doc = <<>>
    /\ ngram_k = 0
    /\ window = 0
    /\ fps = {}
    /\ citation = Citation(<<>>, <<>>, <<>>)
    /\ ref = <<>>
    /\ pc = "jaccard"
    /\ ExtIdle
    /\ RunIdle

\* lines 52-57: jaccard returns
JaccardCall ==
    /\ pc = "jaccard"
    /\ score' = Jaccard(fp_a, fp_b)
    /\ pc' = "scored"
    /\ UNCHANGED <<citation, ref, doc, ngram_k, window, fps, fp_a, fp_b, ext_vars, earlier,
                   drafts, include_abstract_citations, in_text_format, selected,
                   order, idx, sec_text, pos, new_text, key_to_num, next_num,
                   numbered, refs, assembled>>

----------------------------------------------------------------------------
(* services/similarity.py: _tokens and _hash_ngram.  A text is here a      *)
(* sequence of characters.  A 64-bit hash is the tuple of its four 16-bit  *)
(* limbs, lowest first, so that h &= 0xFFFFFFFFFFFFFFFF keeps four limbs.  *)

\* str.lower() of a character
Lower(ch) == IF ch = "A" THEN "a" ELSE IF ch = "B" THEN "b" ELSE ch

LowerAll(s) == [i \in 1..Len(s) |-> Lower(s[i])]

\* utils.normalize_whitespace: runs of blanks become one blank, the ends
\* are stripped
NormalizeWhitespace(s) == Strip(CollapseSpaces(s))

\* the character class [a-z0-9]
IsAlnum(ch) == ch \in {"a", "b", "0"}

\* re.findall(r"[a-z0-9]+", s): the maximal runs, cur being the run so far
RECURSIVE FindAll(_, _)
FindAll(s, cur) ==
    IF s = <<>> THEN (IF cur = <<>> THEN <<>> ELSE <<cur>>)
    ELSE IF IsAlnum(Head(s)) THEN FindAll(Tail(s), Append(cur, Head(s)))
    ELSE (IF cur = <<>> THEN <<>> ELSE <<cur>>) \o FindAll(Tail(s), <<>>)

\* a tokenizer that does not lowercase
WordTokensNoLower(s) == FindAll(NormalizeWhitespace(s), <<>>)

\* _tokens(text)
WordTokens(s) == FindAll(NormalizeWhitespace(LowerAll(s)), <<>>)

\* ord(ch)
Ord(ch) == IF ch = "a" THEN 97 ELSE IF ch = "b" THEN 98 ELSE 48

\* one limb is 16 bits
Base == 65536

\* h = 1469598103934665603 = 0x14650FB0739D0383
FnvOffset == <<899, 29597, 4016, 5221>>

\* the multiplier 1099511628211 is 2^40 + FnvPrimeLow
FnvPrimeLow == 435

\* x ^ y of two naturals
RECURSIVE XorInt(_, _)
XorInt(x, y) ==
    IF x = 0 THEN y
    ELSE IF y = 0 THEN x
    ELSE 2 * XorInt(x \div 2, y \div 2) + ((x + y) % 2)

\* h ^= byte
XorLow(h, byte) == [h EXCEPT ![1] = XorInt(h[1], byte)]

\* h * m modulo 2^64, for m below 2^15
MulSmall(h, m) ==
    LET t1 == h[1] * m
        t2 == h[2] * m + (t1 \div Base)
        t3 == h[3] * m + (t2 \div Base)
        t4 == h[4] * m + (t3 \div Base)
    IN <<t1 % Base, t2 % Base, t3 % Base, t4 % Base>>

\* x + y modulo 2^64
AddLimbs(x, y) ==
    LET t1 == x[1] + y[1]
        t2 == x[2] + y[2] + (t1 \div Base)
        t3 == x[3] + y[3] + (t2 \div Base)
        t4 == x[4] + y[4] + (t3 \div Base)
    IN <<t1 % Base, t2 % Base, t3 % Base, t4 % Base>>

\* h *= 1099511628211; h &= 0xFFFFFFFFFFFFFFFF: h * 2^40 is h * 2^8 moved
\* up two limbs
MulPrime(h) ==
    LET sh == MulSmall(h, 256)
    IN AddLimbs(MulSmall(h, FnvPrimeLow), <<0, 0, sh[1], sh[2]>>)

\* lines 19-22: the characters of one token are hashed in
RECURSIVE HashChars(_, _)
HashChars(h, tok) ==
    IF tok = <<>> THEN h
    ELSE HashChars(MulPrime(XorLow(h, Ord(Head(tok)))), Tail(tok))

\* lines 18-25: the tokens i..last are hashed in, 0xFF after each token
RECURSIVE HashTokens(_, _, _, _)
HashTokens(h, tokens, i, last) ==
    IF i > last THEN h
    ELSE HashTokens(MulPrime(XorLow(HashChars(h, tokens[i]), 255)), tokens, i + 1, last)

\* _hash_ngram(tokens, start, k), start counted from 1
HashNgram(tokens, start, k) == HashTokens(FnvOffset, tokens, start, start + k - 1)

\* x < y of two hashes
Less(x, y) ==
    \E i \in 1..4 : x[i] < y[i] /\ \A j \in (i + 1)..4 : x[j] = y[j]

\* min(hs) of a sequence of hashes
MinHash(hs) ==
    CHOOSE m \in {hs[i] : i \in 1..Len(hs)} : \A i \in 1..Len(hs) : ~Less(hs[i], m)

\* hs.index(m), counted from 1
IndexOf(hs, m) == CHOOSE i \in 1..Len(hs) : hs[i] = m /\ \A j \in 1..(i - 1) : hs[j] # m

\* a loop that stops after the first window
WinnowLoopFirstWindow(hashes, w, i, acc, min_hash, min_pos) ==
    {MinHash(SubSeq(hashes, 1, w))}

\* a loop that records every hash
WinnowLoopAllHashes(hashes, w, i, acc, min_hash, min_pos) ==
    {hashes[j] : j \in 1..Len(hashes)}

\* lines 40-48: the loop from window position i on; min_hash None is <<>>
\* and min_pos -1 is position 0
RECURSIVE WinnowLoop(_, _, _, _, _, _)
WinnowLoop(hashes, w, i, acc, min_hash, min_pos) ==
    IF i > Len(hashes) - w + 1 THEN acc
    ELSE LET window_hashes == SubSeq(hashes, i, i + w - 1)
             m == MinHash(window_hashes)
             p == i - 1 + IndexOf(window_hashes, m)
         IN IF p # min_pos \/ m # min_hash
            THEN WinnowLoop(hashes, w, i + 1, acc \cup {m}, m, p)
            ELSE WinnowLoop(hashes, w, i + 1, acc, min_hash, min_pos)

\* line 33: the hashes of all shingles of k tokens
ShingleHashes(toks, k) == [i \in 1..(Len(toks) - k + 1) |-> HashNgram(toks, i, k)]

\* lines 29-49: winnow_fingerprints(text, k, window)
WinnowFingerprints(s, k, w) ==
    LET toks == WordTokens(s)
    IN IF Len(toks) < k THEN {}
       ELSE LET hashes == ShingleHashes(toks, k)
            IN IF Len(hashes) <= w THEN {hashes[i] : i \in 1..Len(hashes)}
               ELSE WinnowLoop(hashes, w, 1, {}, <<>>, 0)

\* the characters of the texts: a lower-case letter, a capital, a blank and
\* a punctuation mark
DocChars == {"a", "B", " ", "."}

Docs == UNION {[1..n -> DocChars] : n \in 0..MaxDocLen}

\* a call of winnow_fingerprints
InitWinnow ==
    /\ doc \in Docs
    /\ ngram_k \in 1..MaxK
    /\ window \in 1..MaxWindow
    /\ fps = {}
    /\ fp_a = {}
    /\ fp_b = {}
    /\ score = Zero
    /\ citation = Citation(<<>>, <<>>, <<>>)
    /\ ref = <<>>
    /\ pc = "winnow"
    /\ ExtIdle
    /\ RunIdle

\* lines 29-49: winnow_fingerprints returns
WinnowCall ==
    /\ pc = "winnow"
    /\ fps' = WinnowFingerprints(doc, ngram_k, window)
    /\ pc' = "winnowed"
    /\ UNCHANGED <<citation, ref, doc, ngram_k, window, fp_a, fp_b, score, ext_vars, earlier,
                   drafts, include_abstract_citations, in_text_format, selected,
                   order, idx, sec_text, pos, new_text, key_to_num, next_num,
                   numbered, refs, assembled>>

----------------------------------------------------------------------------
(* services/similarity.py: similarity_score and similarity_report.  A dict *)
(* is here the sequence of its items in items() order, each a record of a  *)
(* name and a text; the threshold is a quotient like a score.              *)

\* line 67: the default shingle length and window of similarity_score
DefaultK == 5

DefaultWindow == 4

\* a mutant of SimilarityScore: the shingles are single tokens
SimilarityScoreUnigram(text_a, text_b) ==
    Jaccard(WinnowFingerprints(text_a, 1, DefaultWindow),
            WinnowFingerprints(text_b, 1, DefaultWindow))

\* lines 67-70: similarity_score(text_a, text_b), with the default k, window
SimilarityScore(text_a, text_b) ==
    Jaccard(WinnowFingerprints(text_a, DefaultK, DefaultWindow),
            WinnowFingerprints(text_b, DefaultK, DefaultWindow))

\* x >= y of two quotients with positive denominators
Geq(x, y) == x.num * y.den >= y.num * x.den

\* a mutant of EmptyText: only the empty string counts as empty
EmptyTextNoStrip(t) == t = <<>>

\* lines 84, 87: not t or not t.strip()
EmptyText(t) == IF t = <<>> THEN TRUE ELSE Strip(t) = <<>>

\* SimilarityResult(name_a, name_b, score)
SimilarityResult(ga, sb, sc) == [name_a |-> ga, name_b |-> sb, score |-> sc]

\* a mutant of Qualifies: strictly above the threshold
QualifiesStrictly(sc, th) == ~Geq(th, sc)

\* line 90: score >= threshold
Qualifies(sc, th) == Geq(sc, th)

\* the place of r in a list sorted by non-increasing score: behind every
\* entry whose score is not smaller, as a stable sort places it
RECURSIVE InsertDesc(_, _)
InsertDesc(sorted, r) ==
    IF sorted = <<>> THEN <<r>>
    ELSE IF Geq(sorted[1].score, r.score)
         THEN <<sorted[1]>> \o InsertDesc(Tail(sorted), r)
         ELSE <<r>> \o sorted

\* a mutant of SortDesc: the list is left as appended
SortDescNot(rs) == rs

\* line 92: results.sort(key=lambda x: x.score, reverse=True), a stable sort
RECURSIVE SortDesc(_)
SortDesc(rs) ==
    IF rs = <<>> THEN <<>>
    ELSE InsertDesc(SortDesc(SubSeq(rs, 1, Len(rs) - 1)), rs[Len(rs)])

\* lines 84-85: the generated text is empty, continue with the next one
ReportSkipGenerated ==
    /\ pc = "report"
    /\ gi <= Len(generated)
    /\ si = 1
    /\ EmptyText(generated[gi].text)
    /\ gi' = gi + 1
    /\ UNCHANGED <<si, results, pc, generated, sources, threshold>>
    /\ UNCHANGED <<citation, ref, sim_vars, qa_vars, two_vars, llm_vars, earlier, drafts,
                   include_abstract_citations, in_text_format, selected,
                   order, idx, sec_text, pos, new_text, key_to_num, next_num,
                   numbered, refs, assembled>>

\* lines 87-88: the source text is empty, continue with the next one
ReportSkipSource ==
    /\ pc = "report"
    /\ gi <= Len(generated)
    /\ si <= Len(sources)
    /\ ~EmptyText(generated[gi].text)
    /\ EmptyText(sources[si].text)
    /\ si' = si + 1
    /\ UNCHANGED <<gi, results, pc, generated, sources, threshold>>
    /\ UNCHANGED <<citation, ref, sim_vars, qa_vars, two_vars, llm_vars, earlier, drafts,
                   include_abstract_citations, in_text_format, selected,
                   order, idx, sec_text, pos, new_text, key_to_num, next_num,
                   numbered, refs, assembled>>

\* lines 89-91: the pair is scored and appended when it reaches the threshold
ReportScore ==
    /\ pc = "report"
    /\ gi <= Len(generated)
    /\ si <= Len(sources)
    /\ ~EmptyText(generated[gi].text)
    /\ ~EmptyText(sources[si].text)
    /\ LET sc == SimilarityScore(generated[gi].text, sources[si].text)
       IN /\ score' = sc
          /\ results' = IF Qualifies(sc, threshold)
                        THEN Append(results,
                                    SimilarityResult(generated[gi].name,
                                                     sources[si].name, sc))
                        ELSE results
    /\ si' = si + 1
    /\ UNCHANGED <<gi, pc, generated, sources, threshold>>
    /\ UNCHANGED <<citation, ref, doc, ngram_k, window, fps, fp_a, fp_b,
                   qa_vars, two_vars, llm_vars, earlier, drafts,
                   include_abstract_citations, in_text_format, selected,
                   order, idx, sec_text, pos, new_text, key_to_num, next_num,
                   numbered, refs, assembled>>

\* line 86: the inner loop is exhausted, the outer loop takes the next item
ReportNextGenerated ==
    /\ pc = "report"
    /\ gi <= Len(generated)
    /\ ~EmptyText(generated[gi].text)
    /\ si > Len(sources)
    /\ gi' = gi + 1
    /\ si' = 1
    /\ UNCHANGED <<results, pc, generated, sources, threshold>>
    /\ UNCHANGED <<citation, ref, sim_vars, qa_vars, two_vars, llm_vars, earlier, drafts,
                   include_abstract_citations, in_text_format, selected,
                   order, idx, sec_text, pos, new_text, key_to_num, next_num,
                   numbered, refs, assembled>>

\* lines 92-93: the outer loop is exhausted, the list is sorted and returned
ReportSort ==
    /\ pc = "report"
    /\ gi > Len(generated)
    /\ results' = SortDesc(results)
    /\ pc' = "reported"
    /\ UNCHANGED <<gi, si, generated, sources, threshold>>
    /\ UNCHANGED <<citation, ref, sim_vars, qa_vars, two_vars, llm_vars, earlier, drafts,
                   include_abstract_citations, in_text_format, selected,
                   order, idx, sec_text, pos, new_text, key_to_num, next_num,
                   numbered, refs, assembled>>

\* the most items of each dict
MaxGenerated == 2

MaxSources == 2

\* the keys of the dicts, in insertion order
GeneratedNames == <<"Introduction", "Discussion", "Methods">>

SourceNames == <<"PMID:1", "PMID:2", "PMID:3">>

\* the texts of both dicts: the empty one, a blank one, one of two tokens,
\* two of five tokens, one of six tokens that shares a shingle with each,
\* and a five-token text in capitals
ReportTexts ==
    { <<>>,
      <<" ">>,
      <<"a", " ", "b">>,
      <<"a", " ", "b", " ", "a", " ", "b", " ", "a">>,
      <<"b", " ", "a", " ", "b", " ", "a", " ", "b">>,
      <<"a", " ", "b", " ", "a", " ", "b", " ", "a", " ", "b">>,
      <<"A", " ", "B", " ", "A", " ", "B", " ", "A">> }

\* the dicts of n items over the names
Dicts(names, n) ==
    UNION { { [i \in 1..m |-> [name |-> names[i], text |-> ts[i]]] :
                ts \in [1..m -> ReportTexts] } : m \in 0..n }

\* the thresholds: none, the default 0.12, a half, one, and above one
Thresholds ==
    { [num |-> 0, den |-> 1], [num |-> 3, den |-> 25], [num |-> 1, den |-> 2],
      [num |-> 1, den |-> 1], [num |-> 2, den |-> 1] }

\* a call of similarity_report
InitReport ==
    /\ generated \in Dicts(GeneratedNames, MaxGenerated)
    /\ sources \in Dicts(SourceNames, MaxSources)
    /\ threshold \in Thresholds
    /\ gi = 1
    /\ si = 1
    /\ results = <<>>
    /\ pc = "report"
    /\ citation = Citation(<<>>, <<>>, <<>>)
    /\ ref = <<>>
    /\ SimIdle
    /\ QaIdle
    /\ TwoIdle
    /\ LlmIdle
    /\ RunIdle

----------------------------------------------------------------------------
(* services/qa.py: check_reference_count, called on the reference list of  *)
(* a finished assembly.                                                    *)

\* a mutant of ReferenceWarnings: a list as long as the maximum is reported
ReferenceWarningsAtMax(references, max) ==
    IF Len(references) >= max
    THEN <<[count |-> Len(references), max |-> max]>>
    ELSE <<>>

\* lines 76-82: the warnings of check_reference_count, a warning being the
\* two numbers its text names
ReferenceWarnings(references, max) ==
    IF Len(references) > max
    THEN <<[count |-> Len(references), max |-> max]>>
    ELSE <<>>

\* lines 75-82: check_reference_count(journal, references) returns
CheckReferenceCount ==
    /\ pc = "done"
    /\ warnings' = ReferenceWarnings(refs, max_count)
    /\ pc' = "checked"
    /\ UNCHANGED <<max_count, plan_max_count>>
    /\ UNCHANGED <<citation, ref, sim_vars, rep_vars, two_vars, llm_vars, earlier, drafts,
                   include_abstract_citations, in_text_format, selected,
                   order, idx, sec_text, pos, new_text, key_to_num, next_num,
                   numbered, refs, assembled>>

\* the maxima of a journal and of a citation plan that the lists of the runs
\* here can reach and exceed
MaxCounts == {1, 2}

\* a run of the assembly under a journal maximum, followed by the check
InitQA ==
    /\ RunStart
    /\ \E m \in MaxCounts : max_count = m /\ plan_max_count = m
    /\ warnings = <<>>
    /\ citation = Citation(<<>>, <<>>, <<>>)
    /\ ref = <<>>
    /\ SimIdle
    /\ RepIdle
    /\ TwoIdle
    /\ LlmIdle

----------------------------------------------------------------------------
(* Two runs of number_drafts_and_build_references side by side.  The       *)
(* locals of a call live in its frame: the frame of the running call is    *)
(* the run variables, the frame of the suspended call is the record other, *)
(* and a switch of the scheduler exchanges the two.                        *)

\* lines 69-89: re_number_citations(text, in_text_format, key_to_num,
\* next_num) as one call, sub having scanned up to from and written out
RECURSIVE ReNumberCitations(_, _, _, _, _, _)
ReNumberCitations(text, fmt, k2n, n, from, out) ==
    LET i == NextMatch(text, from)
    IN IF i = 0
       THEN [new_text |-> out \o SubSeq(text, from, Len(text)),
             key_to_num |-> k2n, next_num |-> n]
       ELSE LET k == Key(KindOf(text[i]), IdentAt(text, i))
                m == Bind(k2n, k, n)
            IN ReNumberCitations(text, fmt, m, Advance(k2n, k, n),
                                 FirstClose(text, i) + 1,
                                 out \o SubSeq(text, from, i - 1) \o Marker(fmt, m[k]))

\* lines 111-118: the loop over the sections from index i on
RECURSIVE NumberSections(_, _, _, _, _, _, _)
NumberSections(d, fmt, ord, i, k2n, n, num) ==
    IF i > Len(ord) THEN [numbered |-> num, key_to_num |-> k2n, next_num |-> n]
    ELSE IF Skipped(d, ord[i]) THEN NumberSections(d, fmt, ord, i + 1, k2n, n, num)
    ELSE LET r == ReNumberCitations(Strip(d[ord[i]]), fmt, k2n, n, 1, <<>>)
         IN NumberSections(d, fmt, ord, i + 1, r.key_to_num, r.next_num,
                           [sec \in DOMAIN num \cup {ord[i]} |->
                              IF sec = ord[i] THEN r.new_text ELSE num[sec]])

\* lines 92-140: number_drafts_and_build_references as one call
NumberDraftsAndBuildReferences(d, flag, fmt, sel) ==
    LET ord == IF flag /\ "Abstract" \in DOMAIN d
               THEN <<"Abstract">> \o BaseOrder ELSE BaseOrder
        r == NumberSections(d, fmt, ord, 1, EmptyMap, 1, EmptyMap)
    IN [numbered |-> r.numbered, refs |-> References(r.key_to_num, sel)]

\* the frame of the running call
Frame ==
    [drafts |-> drafts, include_abstract_citations |-> include_abstract_citations,
     in_text_format |-> in_text_format, selected |-> selected, pc |-> pc,
     order |-> order, idx |-> idx, sec_text |-> sec_text, pos |-> pos,
     new_text |-> new_text, key_to_num |-> key_to_num, next_num |-> next_num,
     numbered |-> numbered, refs |-> refs]

\* the frame f becomes the frame of the running call
Resume(f) ==
    /\ drafts' = f.drafts
    /\ include_abstract_citations' = f.include_abstract_citations
    /\ in_text_format' = f.in_text_format
    /\ selected' = f.selected
    /\ pc' = f.pc
    /\ order' = f.order
    /\ idx' = f.idx
    /\ sec_text' = f.sec_text
    /\ pos' = f.pos
    /\ new_text' = f.new_text
    /\ key_to_num' = f.key_to_num
    /\ next_num' = f.next_num
    /\ numbered' = f.numbered
    /\ refs' = f.refs

\* a switch under which the map and the counter are one object for both runs
YieldSharedMap ==
    /\ turn \in {1, 2}
    /\ other' = Frame
    /\ Resume([other EXCEPT !.key_to_num = key_to_num, !.next_num = next_num])
    /\ turn' = 3 - turn
    /\ UNCHANGED <<citation, ref, sim_vars, rep_vars, qa_vars, llm_vars,
                   earlier, assembled>>

\* the scheduler suspends the running call and resumes the other one
Yield ==
    /\ turn \in {1, 2}
    /\ other' = Frame
    /\ Resume(other)
    /\ turn' = 3 - turn
    /\ UNCHANGED <<citation, ref, sim_vars, rep_vars, qa_vars, llm_vars,
                   earlier, assembled>>

\* the drafts of the two runs: the two identities in either order, in one
\* section or in two, and a draft without a marker
TwoRunDrafts ==
    { ("Introduction" :> <<OpenPMID, "111", Close, "w", OpenDOI, "111", Close>>),
      ("Introduction" :> <<OpenDOI, "111", Close, OpenPMID, " ", "111", Close,
                           OpenDOI, "111", Close>>),
      ("Abstract" :> <<OpenDOI, "111", Close>>)
          @@ ("Methods" :> <<OpenPMID, "111", Close, OpenDOI, "111", Close>>),
      ("Methods" :> <<"w">>) }

\* the pools of the two runs
TwoRunPools == { <<>>, <<[citation |-> Citation(<<"111">>, <<>>, <<"A">>)]>> }

\* the frames of a call that has not started
StartFrames ==
    { [drafts |-> d, include_abstract_citations |-> flag, in_text_format |-> fmt,
       selected |-> sel, pc |-> "start", order |-> <<>>, idx |-> 0,
       sec_text |-> <<>>, pos |-> 0, new_text |-> <<>>, key_to_num |-> EmptyMap,
       next_num |-> 0, numbered |-> EmptyMap, refs |-> <<>>] :
        d \in TwoRunDrafts, flag \in BOOLEAN, fmt \in {"bracket", "paren"},
        sel \in TwoRunPools }

\* two calls, each on its own inputs, the first one running
InitTwoRuns ==
    /\ \E f \in StartFrames :
          /\ drafts = f.drafts
          /\ include_abstract_citations = f.include_abstract_citations
          /\ in_text_format = f.in_text_format
          /\ selected = f.selected
          /\ pc = f.pc
          /\ order = f.order
          /\ idx = f.idx
          /\ sec_text = f.sec_text
          /\ pos = f.pos
          /\ new_text = f.new_text
          /\ key_to_num = f.key_to_num
          /\ next_num = f.next_num
          /\ numbered = f.numbered
          /\ refs = f.refs
    /\ other \in StartFrames
    /\ turn = 1
    /\ assembled = <<>>
    /\ earlier = <<>>
    /\ citation = Citation(<<>>, <<>>, <<>>)
    /\ ref = <<>>
    /\ SimIdle
    /\ RepIdle
    /\ QaIdle
    /\ LlmIdle

----------------------------------------------------------------------------
(* services/llm.py: OpenAIChatCompletionsClient.chat_text and chat_json.   *)
(* What requests.post does is a response, drawn anew for every request: a  *)
(* transport exception, or a status with a body.  A body is the JSON of a  *)
(* completion whose content is a JSON object, a JSON object inside other   *)
(* text, or prose, or it is not the JSON of a completion at all.           *)

\* line 61: range(3)
Attempts == 3

\* the exceptions requests.post raises here
TransportErrors == {"ConnectionError", "Timeout"}

Statuses == {200, 400, 404, 429, 500}

Bodies == {"{a}", "x{a}x", "prose", "malformed"}

Responses ==
    { [raised |-> "None", status |-> 200, body |-> b] : b \in Bodies }
    \cup { [raised |-> "None", status |-> st, body |-> "error"] :
             st \in Statuses \ {200} }
    \cup { [raised |-> e, status |-> 0, body |-> "None"] : e \in TransportErrors }

\* an except clause that names LLMError only
CaughtLLMErrorOnly(e) == e = "LLMError"

\* lines 69, 141: except Exception catches every exception of the try block,
\* each being a subclass of Exception
Caught(e) ==
    e \in TransportErrors \cup {"LLMError", "KeyError", "JSONDecodeError"}

\* lines 63-67: what the try block of chat_text raises on response r
TextError(r) ==
    IF r.raised # "None" THEN r.raised
    ELSE IF r.status >= 400 THEN "LLMError"
    ELSE IF r.body = "malformed" THEN "KeyError"
    ELSE "None"

\* lines 130-140 and 118-127: what reading and parsing the body raises
ParseError(body) ==
    IF body = "malformed" THEN "KeyError"
    ELSE IF body \in {"{a}", "x{a}x"} THEN "None"
    ELSE "JSONDecodeError"

\* json.loads(text), or json.loads(text[start:end+1]) of the salvage
Parsed(body) == "a"

\* lines 70-71, 142-143: the handler of the except clause, and the end of
\* the call when the exception is not one the clause catches
Except(e, next_pc) ==
    IF Caught(e)
    THEN /\ last_err' = e
         /\ slept' = slept + 3 * (attempt + 1)
         /\ attempt' = attempt + 1
         /\ pc' = next_pc
         /\ UNCHANGED outcome
    ELSE /\ outcome' = [kind |-> "raised", value |-> e]
         /\ pc' = "chat_done"
         /\ UNCHANGED <<last_err, slept, attempt>>

\* the call returns value v
Return(v) ==
    /\ outcome' = [kind |-> "returned", value |-> v]
    /\ pc' = "chat_done"
    /\ UNCHANGED <<last_err, slept, attempt>>

\* what the chat actions leave alone
ChatFrame ==
    UNCHANGED <<citation, ref, sim_vars, rep_vars, qa_vars, two_vars, earlier,
                drafts, include_abstract_citations, in_text_format, selected,
                order, idx, sec_text, pos, new_text, key_to_num, next_num,
                numbered, refs, assembled>>

\* lines 61-71: one pass of the loop of chat_text
ChatTextRequest ==
    /\ pc = "chat_text"
    /\ attempt < Attempts
    /\ \E r \in Responses :
          /\ sent' = Append(sent, [response_format |-> FALSE,
                                   attempt |-> attempt, response |-> r])
          /\ IF TextError(r) = "None" THEN Return(r.body)
             ELSE Except(TextError(r), "chat_text")
    /\ ChatFrame

\* lines 72, 144: the loop is exhausted, LLMError is raised
ChatRaise ==
    /\ pc \in {"chat_text", "chat_json"}
    /\ attempt >= Attempts
    /\ outcome' = [kind |-> "raised", value |-> "LLMError"]
    /\ pc' = "chat_done"
    /\ UNCHANGED <<attempt, sent, last_err, slept>>
    /\ ChatFrame

\* a client that falls back on every error status
FallbackStatusesAll == {400, 404, 429, 500}

\* line 115: r.status_code in (400, 404)
FallbackStatuses == {400, 404}

\* lines 109-140: the request of chat_json with response_format
ChatJsonRequest ==
    /\ pc = "chat_json"
    /\ attempt < Attempts
    /\ \E r \in Responses :
          /\ sent' = Append(sent, [response_format |-> TRUE,
                                   attempt |-> attempt, response |-> r])
          /\ IF r.raised # "None" THEN Except(r.raised, "chat_json")
             ELSE IF r.status >= 400
                  THEN IF r.status \in FallbackStatuses
                       THEN /\ pc' = "fallback"
                            /\ UNCHANGED <<attempt, last_err, slept, outcome>>
                       ELSE Except("LLMError", "chat_json")
             ELSE IF ParseError(r.body) = "None" THEN Return(Parsed(r.body))
             ELSE Except(ParseError(r.body), "chat_json")
    /\ ChatFrame

\* lines 116-128: the request without response_format
ChatJsonFallback ==
    /\ pc = "fallback"
    /\ \E r \in Responses :
          /\ sent' = Append(sent, [response_format |-> FALSE,
                                   attempt |-> attempt, response |-> r])
          /\ IF r.raised # "None" THEN Except(r.raised, "chat_json")
             ELSE IF r.status >= 400 THEN Except("LLMError", "chat_json")
             ELSE IF ParseError(r.body) = "None" THEN Return(Parsed(r.body))
             ELSE Except(ParseError(r.body), "chat_json")
    /\ ChatFrame

\* a call of the chat client, nothing sent yet
InitChat ==
    /\ attempt = 0
    /\ sent = <<>>
    /\ last_err = "None"
    /\ slept = 0
    /\ outcome = [kind |-> "none", value |-> "None"]
    /\ citation = Citation(<<>>, <<>>, <<>>)
    /\ ref = <<>>
    /\ SimIdle
    /\ RepIdle
    /\ QaIdle
    /\ TwoIdle
    /\ RunIdle

InitChatText == pc = "chat_text" /\ InitChat

InitChatJson == pc = "chat_json" /\ InitChat

Next ==
    \/ BuildOrder
    \/ SkipSection
    \/ BeginSection
    \/ Repl
    \/ EndSection
    \/ BuildReferences
    \/ Assemble

Spec == Init /\ [][Next]_vars

SpecAnyNames == InitAnyNames /\ [][Next]_vars

NextRerun == Next \/ Rerun

NextFormat == FormatReference

SpecFormat == InitFormat /\ [][NextFormat]_vars

NextJaccard == JaccardCall

SpecJaccard == InitJaccard /\ [][NextJaccard]_vars

NextWinnow == WinnowCall

SpecWinnow == InitWinnow /\ [][NextWinnow]_vars

SpecRerun == InitAnyNames /\ [][NextRerun]_vars

NextReport ==
    \/ ReportSkipGenerated
    \/ ReportSkipSource
    \/ ReportScore
    \/ ReportNextGenerated
    \/ ReportSort

SpecReport == InitReport /\ [][NextReport]_vars

NextQA == Next \/ CheckReferenceCount

SpecQA == InitQA /\ [][NextQA]_vars

NextTwoRuns ==
    \/ BuildOrder
    \/ SkipSection
    \/ BeginSection
    \/ Repl
    \/ EndSection
    \/ BuildReferences
    \/ Yield

SpecTwoRuns == InitTwoRuns /\ [][NextTwoRuns]_vars

NextChatText == ChatTextRequest \/ ChatRaise

\* requests.post returns or raises within its timeout and sleep returns, so
\* a call that can take a step takes it
SpecChatText == InitChatText /\ [][NextChatText]_vars /\ WF_vars(NextChatText)

NextChatJson == ChatJsonRequest \/ ChatJsonFallback \/ ChatRaise

SpecChatJson == InitChatJson /\ [][NextChatJson]_vars /\ WF_vars(NextChatJson)

----------------------------------------------------------------------------
(* What the properties speak of: the placeholders of a text by the wire    *)
(* format {cite:KIND:IDENTIFIER}, stated without the scanner, and the      *)
(* numbers read back from the rendered text.                               *)

\* a tag opens at a with kind PMID or DOI, and a closing brace follows a
\* non-empty identifier
WellFormedAt(text, a) ==
    /\ text[a] \in {"{cite:PMID:", "{cite:DOI:"}
    /\ \E j \in (a + 2)..Len(text) :
         text[j] = "}" /\ \A m \in (a + 1)..(j - 1) : text[m] # "}"

\* the closing brace of the tag that opens at a
CloseOf(text, a) ==
    CHOOSE j \in (a + 1)..Len(text) :
        text[j] = "}" /\ \A m \in (a + 1)..(j - 1) : text[m] # "}"

\* position i lies inside a well-formed tag that opens before it
InsideTag(text, i) ==
    \E b \in 1..(i - 1) : WellFormedAt(text, b) /\ CloseOf(text, b) >= i

\* a placeholder of the text: a well-formed tag that is not part of the
\* identifier of an earlier one
PlaceholderAt(text, a) == WellFormedAt(text, a) /\ ~InsideTag(text, a)

\* the positions of the placeholders, left to right
Placeholders(text) ==
    SelectSeq([a \in 1..Len(text) |-> a], LAMBDA a : PlaceholderAt(text, a))

\* the identity of the placeholder at a: kind and trimmed identifier
Identity(text, a) ==
    <<IF text[a] = "{cite:PMID:" THEN "PMID" ELSE "DOI",
      Strip(SubSeq(text, a + 1, CloseOf(text, a) - 1))>>

IsDigit(t) == \E d \in 1..10 : Digit[d] = t

DigitVal(t) == (CHOOSE d \in 1..10 : Digit[d] = t) - 1

RECURSIVE DigitsVal(_, _, _)
DigitsVal(s, i, acc) ==
    IF i <= Len(s) /\ IsDigit(s[i])
    THEN DigitsVal(s, i + 1, acc * 10 + DigitVal(s[i])) ELSE acc

\* the numbers of the rendered markers [n] and (n) of a text, left to right
RECURSIVE CiteNums(_, _)
CiteNums(s, i) ==
    IF i > Len(s) THEN <<>>
    ELSE IF s[i] \in {"[", "("} THEN <<DigitsVal(s, i + 1, 0)>> \o CiteNums(s, i + 1)
    ELSE CiteNums(s, i + 1)

\* the canonical manuscript order
Canonical ==
    <<"Abstract", "Introduction", "Methods", "Results", "Discussion", "Conclusion">>

\* the section takes part in the run and has text
Processed(sec) ==
    /\ sec \in DOMAIN drafts
    /\ Strip(drafts[sec]) # <<>>
    /\ sec = "Abstract" => include_abstract_citations

ProcessedSeq == SelectSeq(Canonical, Processed)

\* the run has returned its numbered drafts and references
Returned == pc \in {"returned", "done"}

\* every processed section is numbered, one rendered marker per placeholder
Rendered ==
    \A sec \in {ProcessedSeq[n] : n \in 1..Len(ProcessedSeq)} :
        /\ sec \in DOMAIN numbered
        /\ Len(CiteNums(numbered[sec], 1)) = Len(Placeholders(Strip(drafts[sec])))

\* the placeholder occurrences of the sections secs, in reading order, each
\* with its identity and the number it was rewritten to
RECURSIVE Occurrences(_)
Occurrences(secs) ==
    IF secs = <<>> THEN <<>>
    ELSE LET text == Strip(drafts[Head(secs)])
             ps == Placeholders(text)
             ns == CiteNums(numbered[Head(secs)], 1)
         IN [n \in 1..Len(ps) |->
                [sec |-> Head(secs), id |-> Identity(text, ps[n]), num |-> ns[n]]]
            \o Occurrences(Tail(secs))

Occ == Occurrences(ProcessedSeq)

OccIds == {Occ[n].id : n \in 1..Len(Occ)}

\* the index in Occ of the first occurrence of identity a
First(a) == CHOOSE n \in 1..Len(Occ) :
                Occ[n].id = a /\ \A m \in 1..(n - 1) : Occ[m].id # a

----------------------------------------------------------------------------
(* C1: in one assembly run every occurrence of the same placeholder        *)
(* identity (kind plus identifier trimmed of surrounding whitespace) is    *)
(* rewritten to the same number, in whatever processed section and at      *)
(* whatever position it occurs.                                            *)
C1_SameIdentitySameNumber ==
    Returned =>
        /\ Rendered
        /\ \A m, n \in 1..Len(Occ) : Occ[m].id = Occ[n].id => Occ[m].num = Occ[n].num

\* one identity, written with and without blanks around the identifier, in
\* two sections
C1_Witness ==
    /\ Returned
    /\ Rendered
    /\ \E m, n \in 1..Len(Occ) :
         /\ Occ[m].id = Occ[n].id
         /\ Occ[m].sec # Occ[n].sec
         /\ Occ[m].num = 1
         /\ <<"{cite:PMID:", " ", "111", " ", "}">> = drafts[Occ[n].sec]
         /\ <<"{cite:PMID:", "111", "}">> = drafts[Occ[m].sec]

----------------------------------------------------------------------------
(* C2: after an assembly run the numbers assigned are exactly 1..N, no     *)
(* gaps and no number shared by two identities, N being the count of       *)
(* distinct placeholder identities of the processed sections; with N = 0   *)
(* the mapping and the reference list are empty.                           *)
C2_NumbersDense ==
    Returned =>
        /\ Rendered
        /\ LET N == Cardinality(OccIds)
               nums == {key_to_num[k] : k \in DOMAIN key_to_num}
           IN /\ nums = 1..N
              /\ {Occ[n].num : n \in 1..Len(Occ)} = 1..N
              /\ Cardinality(DOMAIN key_to_num) = N
              /\ N = 0 => key_to_num = EmptyMap /\ refs = <<>>

\* two distinct identities, numbered 1 and 2
C2_Witness ==
    /\ Returned
    /\ Rendered
    /\ Cardinality(OccIds) = 2
    /\ {key_to_num[k] : k \in DOMAIN key_to_num} = {1, 2}

\* an empty run: no placeholder in any processed section
C2_WitnessEmpty ==
    /\ Returned
    /\ ProcessedSeq # <<>>
    /\ Cardinality(OccIds) = 0
    /\ refs = <<>>

----------------------------------------------------------------------------
(* C3: numbers follow first appearance: if the first occurrence of         *)
(* identity a comes before the first occurrence of identity b when the     *)
(* processed sections are read in canonical order, each left to right,     *)
(* then number(a) < number(b).                                             *)
C3_FirstAppearanceOrder ==
    Returned =>
        /\ Rendered
        /\ \A a, b \in OccIds :
             First(a) < First(b) => Occ[First(a)].num < Occ[First(b)].num

\* two identities whose first occurrences lie in different sections, the
\* earlier section being the Abstract
C3_Witness ==
    /\ Returned
    /\ Rendered
    /\ \E a, b \in OccIds :
         /\ First(a) < First(b)
         /\ Occ[First(a)].sec = "Abstract"
         /\ Occ[First(b)].sec = "Introduction"
         /\ Occ[First(a)].num = 1
         /\ Occ[First(b)].num = 2

----------------------------------------------------------------------------
(* C4: during one assembly run a binding identity -> number, once made, is *)
(* never changed or removed, and after every marker the next-available     *)
(* counter is 1 plus the number of bound identities.                       *)
C4_BindingStable ==
    /\ [](pc # "start" => next_num = 1 + Cardinality(DOMAIN key_to_num))
    /\ [][pc # "start" =>
            \A k \in DOMAIN key_to_num :
                k \in DOMAIN key_to_num' /\ key_to_num'[k] = key_to_num[k]]_vars

\* a marker of an identity bound in an earlier section has just been
\* replaced: it got number 1 again and the counter stayed at 2
C4_Witness ==
    /\ pc = "sub"
    /\ pos > 1
    /\ idx > 1
    /\ next_num = 2
    /\ DOMAIN numbered # {}
    /\ CiteNums(new_text, 1) = <<1>>

----------------------------------------------------------------------------
(* The reference list against the citation pool.                           *)

\* the record c carries the identity id as its PMID or as its DOI
Carries(c, id) ==
    \/ id[1] = "PMID" /\ c.pmid # <<>> /\ Strip(c.pmid) = id[2]
    \/ id[1] = "DOI" /\ c.doi # <<>> /\ Strip(c.doi) = id[2]

\* the pool entries whose record carries id
Candidates(id) == {i \in 1..Len(selected) : Carries(selected[i].citation, id)}

\* the text KIND:IDENTIFIER of an identity
IdText(id) == <<id[1], ":">> \o id[2]

\* the prefix "n. " of reference n
NumberPrefix(n) == Str(n) \o <<".", " ">>

\* reference n lists the record of pool entry i
Lists(n, i) ==
    /\ n \in 1..Len(refs)
    /\ refs[n] = NumberPrefix(n) \o FormatVancouverReference(selected[i].citation)

(* C5: for every assigned number n whose identity has no matching record   *)
(* in the pool the reference list holds at position n the flag string      *)
(* "n. KIND:IDENTIFIER (Missing metadata; ...)"; for every n whose         *)
(* identity matches a pool record the entry is "n. " and the formatted     *)
(* record.  Assembly neither fails nor omits the entry.                    *)
C5_UnresolvedFlagged ==
    Returned =>
        /\ Rendered
        /\ \A m \in 1..Len(Occ) :
             LET n == Occ[m].num
                 id == Occ[m].id
             IN /\ n \in 1..Len(refs)
                /\ IF Candidates(id) = {}
                   THEN refs[n] = NumberPrefix(n) \o IdText(id)
                                  \o <<" ", "(Missing metadata; please fix in CitationPlan).">>
                   ELSE \E i \in Candidates(id) : Lists(n, i)

\* number 1 is resolved through the DOI of a pool record, number 2 is cited
\* without a record
C5_Witness ==
    /\ pc = "done"
    /\ Rendered
    /\ Len(refs) = 2
    /\ \E m, n \in 1..Len(Occ) :
         /\ Occ[m].num = 1 /\ Occ[m].id[1] = "DOI" /\ Candidates(Occ[m].id) # {}
         /\ Occ[n].num = 2 /\ Candidates(Occ[n].id) = {}

----------------------------------------------------------------------------
(* C6: the reference list has exactly one entry per assigned number, in    *)
(* ascending number order; the i-th entry begins with "i. "; its length is *)
(* the number of distinct identities numbered in the body.                 *)
C6_OneEntryPerNumber ==
    Returned =>
        /\ Rendered
        /\ Len(refs) = Cardinality(OccIds)
        /\ Len(refs) = Cardinality({Occ[n].num : n \in 1..Len(Occ)})
        /\ \A i \in 1..Len(refs) :
             /\ Len(refs[i]) >= Len(NumberPrefix(i))
             /\ SubSeq(refs[i], 1, Len(NumberPrefix(i))) = NumberPrefix(i)
             /\ \E n \in 1..Len(Occ) : Occ[n].num = i

\* three markers of two identities: the list has the entries 1. and 2.
C6_Witness ==
    /\ Returned
    /\ Rendered
    /\ Len(refs) = 2
    /\ Len(Occ) = 3

----------------------------------------------------------------------------
(* C7: the reference list is deduplicated: no record of the citation pool  *)
(* is listed under more than one reference number, also when a record has  *)
(* both a PMID and a DOI and is cited through each of them.                *)
C7_NoRecordListedTwice ==
    Returned =>
        \A m, n \in 1..Len(Occ) :
            Occ[m].num # Occ[n].num =>
                ~ \E i \in 1..Len(selected) :
                      /\ Carries(selected[i].citation, Occ[m].id)
                      /\ Carries(selected[i].citation, Occ[n].id)
                      /\ Lists(Occ[m].num, i)
                      /\ Lists(Occ[n].num, i)

----------------------------------------------------------------------------
(* Malformed placeholders.                                                 *)

\* a tag of a kind other than PMID and DOI opens at i
OtherKindAt(text, i) == text[i] = "{cite:ISBN:"

\* a PMID or DOI tag opens at i and its identifier is empty
EmptyIdentAt(text, i) ==
    /\ text[i] \in {"{cite:PMID:", "{cite:DOI:"}
    /\ i < Len(text)
    /\ text[i + 1] = "}"

\* a PMID or DOI tag opens at i and no closing brace follows
UnclosedAt(text, i) ==
    /\ text[i] \in {"{cite:PMID:", "{cite:DOI:"}
    /\ \A j \in (i + 1)..Len(text) : text[j] # "}"

MalformedAt(text, i) ==
    OtherKindAt(text, i) \/ EmptyIdentAt(text, i) \/ UnclosedAt(text, i)

\* the positions at which a malformed tag opens
Malformed(text) == {i \in 1..Len(text) : MalformedAt(text, i)}

\* position i belongs to a placeholder: to its opener, identifier or brace
InPlaceholder(text, i) ==
    \E a \in 1..i : PlaceholderAt(text, a) /\ CloseOf(text, a) >= i

\* the text outside the placeholders
Kept(text) ==
    LET at == SelectSeq([i \in 1..Len(text) |-> i],
                        LAMBDA i : ~InPlaceholder(text, i))
    IN [n \in 1..Len(at) |-> text[at[n]]]

\* the rendered text without its markers [n] and (n)
Literal(out) ==
    SelectSeq(out, LAMBDA t : t \notin {"[", "]", "(", ")"} /\ ~IsDigit(t))

\* the text the section sec was numbered from
TextOf(sec) == Strip(drafts[sec])

(* C8, as claimed: a malformed placeholder (kind other than PMID or DOI, a *)
(* tag with no closing brace, an empty identifier) is never matched: every *)
(* malformed tag of a section's text is still in the output text.          *)
C8_MalformedLeftLiteral ==
    Returned =>
        \A sec \in DOMAIN numbered :
            Cardinality(Malformed(numbered[sec])) = Cardinality(Malformed(TextOf(sec)))

(* C8, amended: a malformed placeholder that does not lie inside the       *)
(* identifier of a well-formed marker opened before it is never matched:   *)
(* it is left token for token in the output, binds no number and does not  *)
(* advance the counter.  The identifier of a marker is free text up to the *)
(* first closing brace, so a malformed tag between an opener and that      *)
(* brace is part of the identifier and is replaced with the marker.        *)
C8_MalformedOutsideMarkersKept ==
    Returned =>
        /\ Rendered
        /\ \A sec \in DOMAIN numbered :
             /\ Literal(numbered[sec]) = Kept(TextOf(sec))
             /\ Cardinality(Malformed(numbered[sec]))
                  = Cardinality({i \in Malformed(TextOf(sec)) : ~InsideTag(TextOf(sec), i)})
             /\ \A i \in Malformed(TextOf(sec)) :
                  ~InsideTag(TextOf(sec), i) => ~InPlaceholder(TextOf(sec), i)
        /\ Cardinality(DOMAIN key_to_num) = Cardinality(OccIds)
        /\ next_num = 1 + Cardinality(OccIds)

\* a tag of another kind and a tag with an empty identifier stand next to a
\* marker and are kept; the marker alone is numbered
C8_Witness ==
    /\ Returned
    /\ Rendered
    /\ next_num = 2
    /\ \E sec \in DOMAIN numbered :
         /\ Cardinality(Malformed(numbered[sec])) = 2
         /\ \E i, j \in Malformed(numbered[sec]) :
              OtherKindAt(numbered[sec], i) /\ EmptyIdentAt(numbered[sec], j)
         /\ Len(CiteNums(numbered[sec], 1)) = 1

----------------------------------------------------------------------------
(* Skipped sections and the Abstract.                                      *)

\* the section is absent from drafts or its text is empty or blank
Blank(sec) == sec \notin DOMAIN drafts \/ Strip(drafts[sec]) = <<>>

\* the canonical sections of this run: Abstract only when it is included
InRun(sec) ==
    \/ sec \in {"Introduction", "Methods", "Results", "Discussion", "Conclusion"}
    \/ sec = "Abstract" /\ include_abstract_citations

\* the tokens of a text
Tokens(text) == {text[n] : n \in 1..Len(text)}

(* C9: a section that is absent from drafts, or whose text is empty or     *)
(* whitespace-only, is skipped: it is no key of the numbered drafts, the   *)
(* step that passes it over binds no number, and it contributes nothing to *)
(* the assembled body; every other section of the run's canonical order    *)
(* that drafts holds is a key of the numbered drafts.                      *)
C9_BlankSectionsSkipped ==
    /\ [](Returned =>
            \A sec \in DraftNames \cup Tokens(Canonical) :
                /\ Blank(sec) => sec \notin DOMAIN numbered
                /\ Blank(sec) /\ pc = "done" => sec \notin Tokens(assembled)
                /\ ~Blank(sec) /\ InRun(sec) => sec \in DOMAIN numbered)
    /\ [][pc = "loop" /\ idx <= Len(order) /\ Blank(order[idx]) =>
            UNCHANGED <<key_to_num, next_num, numbered>>]_vars

\* a section of blanks was passed over and another section was numbered
C9_Witness ==
    /\ pc = "done"
    /\ \E sec \in DOMAIN drafts : drafts[sec] # <<>> /\ Blank(sec) /\ InRun(sec)
    /\ DOMAIN numbered # {}
    /\ next_num = 2

----------------------------------------------------------------------------
(* C10: the Abstract takes part in numbering if and only if                *)
(* include_abstract_citations is true and drafts contains an Abstract, and *)
(* then it is processed before Introduction; otherwise its placeholders    *)
(* consume no numbers, it is neither in the numbered drafts nor in the     *)
(* assembled body, and Introduction's first new identity gets number 1.    *)
C10_AbstractParticipation ==
    pc = "done" =>
        LET takes == include_abstract_citations /\ "Abstract" \in DOMAIN drafts
            first(sec) == CiteNums(numbered[sec], 1)[1]
            cited(sec) == /\ sec \in DOMAIN numbered
                          /\ CiteNums(numbered[sec], 1) # <<>>
        IN /\ Rendered
           /\ takes <=> "Abstract" \in Tokens(order)
           /\ takes => order[1] = "Abstract" /\ order[2] = "Introduction"
           /\ takes /\ ~Blank("Abstract") => "Abstract" \in DOMAIN numbered
           /\ takes /\ cited("Abstract") => first("Abstract") = 1
           /\ ~takes => /\ "Abstract" \notin DOMAIN numbered
                        /\ "Abstract" \notin Tokens(assembled)
                        /\ Cardinality(DOMAIN key_to_num) = Cardinality(OccIds)
                        /\ cited("Introduction") => first("Introduction") = 1

\* the Abstract is included and numbered first: its marker is 1 and the
\* Introduction's new identity is 2 in the assembled body
C10_Witness ==
    /\ pc = "done"
    /\ include_abstract_citations
    /\ DOMAIN numbered = {"Abstract", "Introduction"}
    /\ CiteNums(numbered["Abstract"], 1) = <<1>>
    /\ CiteNums(numbered["Introduction"], 1) = <<2>>
    /\ Head(assembled) = "Abstract"

\* the Abstract has a placeholder and is left out: the Introduction's
\* marker is 1
C10_WitnessExcluded ==
    /\ pc = "done"
    /\ ~include_abstract_citations
    /\ "Abstract" \in DOMAIN drafts
    /\ Placeholders(Strip(drafts["Abstract"])) # <<>>
    /\ DOMAIN numbered = {"Introduction"}
    /\ CiteNums(numbered["Introduction"], 1) = <<1>>

----------------------------------------------------------------------------
(* The assembled body.                                                     *)

\* the canonical sections that are keys of the numbered drafts, in order
NumberedSeq == SelectSeq(Canonical, LAMBDA sec : sec \in DOMAIN numbered)

\* heading, blank line and renumbered text of the first n numbered
\* sections, one blank line between two sections
RECURSIVE BodyOf(_)
BodyOf(n) ==
    IF n = 0 THEN <<>>
    ELSE BodyOf(n - 1) \o (IF n > 1 THEN <<"\n\n">> ELSE <<>>)
         \o <<NumberedSeq[n], "\n\n">> \o numbered[NumberedSeq[n]]

\* the numbers of the reference list, read from the prefixes "n. "
RefNums == {DigitsVal(refs[i], 1, 0) : i \in 1..Len(refs)}

(* C11: the assembled body is the concatenation, in canonical order        *)
(* (Abstract first when included), of exactly the sections of the numbered *)
(* map, each as its name as heading followed by its renumbered text; the   *)
(* numbers in the body are the numbers of the returned reference list.     *)
C11_BodyIsNumberedSections ==
    pc = "done" =>
        /\ assembled = BodyOf(Len(NumberedSeq))
        /\ Len(NumberedSeq) = Cardinality(DOMAIN numbered)
        /\ {CiteNums(assembled, 1)[n] : n \in 1..Len(CiteNums(assembled, 1))} = RefNums
        /\ RefNums = 1..Len(refs)

\* the Abstract and the Introduction are in the body, with the markers 1
\* and 2 and two references
C11_Witness ==
    /\ pc = "done"
    /\ NumberedSeq = <<"Abstract", "Introduction">>
    /\ CiteNums(assembled, 1) = <<1, 2>>
    /\ Len(refs) = 2

----------------------------------------------------------------------------
(* C12: an assembly whose drafts contain an unsupported section name (one  *)
(* outside Abstract, Introduction, Methods, Results, Discussion,           *)
(* Conclusion) is signalled to the caller as a hard failure: no such run   *)
(* returns a body and a reference list.                                    *)
C12_UnsupportedNameFails ==
    (\E sec \in DOMAIN drafts : sec \notin Tokens(Canonical)) => ~Returned

----------------------------------------------------------------------------
(* C13: renumbering is a pure function of its arguments: a run on the same *)
(* (journal style, drafts, citation plan, include flag) as an earlier run  *)
(* returns equal numbered texts, an equal reference list and an equal      *)
(* body; every run starts its loop with an empty map and the counter at 1, *)
(* whatever the earlier run left, and no run changes its arguments.        *)
C13_RunsAgree ==
    /\ [](earlier # <<>> /\ Returned =>
            /\ numbered = earlier[1].numbered
            /\ refs = earlier[1].refs
            /\ pc = "done" => assembled = earlier[1].assembled)
    /\ [](pc = "loop" /\ idx = 1 =>
            key_to_num = EmptyMap /\ next_num = 1 /\ numbered = EmptyMap)
    /\ [][UNCHANGED <<drafts, include_abstract_citations, in_text_format, selected>>]_vars

\* a second run on drafts with two identities has returned
C13_Witness ==
    /\ earlier # <<>>
    /\ pc = "done"
    /\ Len(earlier[1].refs) = 2
    /\ Len(refs) = 2
    /\ Cardinality(DOMAIN numbered) = 2

----------------------------------------------------------------------------
(* The rewritten text of a section.                                        *)

\* the rendered marker of number n in the style of the run
Rendering(n) ==
    IF in_text_format = "bracket" THEN <<"[">> \o Str(n) \o <<"]">>
    ELSE <<"(">> \o Str(n) \o <<")">>

\* the text from position i on, every placeholder replaced as a whole by
\* the rendered number bound to its identity, every other token kept
RECURSIVE Rewritten(_, _)
Rewritten(text, i) ==
    IF i > Len(text) THEN <<>>
    ELSE IF PlaceholderAt(text, i)
         THEN Rendering(key_to_num[IdText(Identity(text, i))])
              \o Rewritten(text, CloseOf(text, i) + 1)
         ELSE <<text[i]>> \o Rewritten(text, i + 1)

(* C14: each well-formed marker of a section is replaced as a whole by     *)
(* "[n]" in the bracket style and by "(n)" in the paren style, n being the *)
(* number bound to its identity; apart from these replacements and the     *)
(* trimming of the section's leading and trailing whitespace every other   *)
(* character of the section text is kept, unchanged and in order.          *)
C14_MarkersReplacedRestKept ==
    Returned =>
        \A sec \in DOMAIN numbered :
            /\ \A a \in 1..Len(TextOf(sec)) :
                 PlaceholderAt(TextOf(sec), a) =>
                     IdText(Identity(TextOf(sec), a)) \in DOMAIN key_to_num
            /\ numbered[sec] = Rewritten(TextOf(sec), 1)

\* paren style: a section with a leading blank, a word and a marker came
\* out as the word followed by "(1)"
C14_Witness ==
    /\ Returned
    /\ in_text_format = "paren"
    /\ \E sec \in DOMAIN numbered :
         /\ drafts[sec] # TextOf(sec)
         /\ numbered[sec] = <<"w", "(", "1", ")">>

----------------------------------------------------------------------------
(* format_vancouver_reference, called on one record.                       *)

\* the call has returned
Formatted == pc = "formatted"

\* the first n names, joined by ", "
RECURSIVE NamesJoined(_, _)
NamesJoined(names, n) ==
    IF n = 0 THEN <<>>
    ELSE IF n = 1 THEN names[1]
    ELSE NamesJoined(names, n - 1) \o <<", ">> \o names[n]

\* p is the first segment of s: s starts with p and a blank or the end
\* follows
FirstSegment(p, s) ==
    /\ Len(p) <= Len(s)
    /\ SubSeq(s, 1, Len(p)) = p
    /\ Len(s) > Len(p) => s[Len(p) + 1] = " "

(* C15: with 1 to 6 authors all names are joined by ", " and end with a    *)
(* period, without "et al."; with 7 or more authors exactly the first 6    *)
(* names are joined by ", " followed by ", et al." and no later name       *)
(* appears; with no authors the segment is omitted.                        *)
C15_AuthorSegment ==
    Formatted =>
        LET names == citation.authors
            n == Len(names)
        IN /\ n = 0 =>
                /\ \A i \in 1..Len(AuthorNames) : AuthorNames[i][1] \notin Tokens(ref)
                /\ ", " \notin Tokens(ref)
                /\ ", et al." \notin Tokens(ref)
           /\ n \in 1..6 =>
                /\ FirstSegment(NamesJoined(names, n) \o <<".">>, ref)
                /\ ", et al." \notin Tokens(ref)
           /\ n >= 7 =>
                /\ FirstSegment(NamesJoined(names, 6) \o <<", et al.">>, ref)
                /\ \A i \in 7..n : names[i][1] \notin Tokens(ref)

\* a record with seven authors has been formatted
C15_Witness ==
    /\ Formatted
    /\ Len(citation.authors) = 7

\* a record with six authors has been formatted
C15_WitnessSix ==
    /\ Formatted
    /\ Len(citation.authors) = 6
    /\ citation.title = <<"T">>

----------------------------------------------------------------------------
(* The segments of a reference: the maximal runs of tokens between single  *)
(* blanks.                                                                 *)

\* s[i..j] is a segment of s
SegmentAt(s, i, j) ==
    /\ i <= j
    /\ \A m \in i..j : s[m] # " "
    /\ i = 1 \/ s[i - 1] = " "
    /\ j = Len(s) \/ s[j + 1] = " "

SegmentsOf(s) ==
    {SubSeq(s, i, j) : <<i, j>> \in {x \in (1..Len(s)) \X (1..Len(s)) :
                                        SegmentAt(s, x[1], x[2])}}

\* V: VOLUME(ISSUE), (ISSUE), VOLUME or nothing
VolumeIssue ==
    IF citation.volume # <<>> /\ citation.issue # <<>>
    THEN citation.volume \o <<"(">> \o citation.issue \o <<")">>
    ELSE IF citation.issue # <<>> THEN <<"(">> \o citation.issue \o <<")">>
    ELSE citation.volume

\* YEAR;V:PAGES. with pages and YEAR;V. without
YearBlock ==
    Str(citation.year) \o <<";">> \o VolumeIssue
    \o (IF citation.pages # <<>> THEN <<":">> \o citation.pages \o <<".">>
        ELSE <<".">>)

(* C16: with a year the block is YEAR;V:PAGES. when pages exist and        *)
(* YEAR;V. with no colon when they do not, V being VOLUME(ISSUE) if both   *)
(* exist, (ISSUE) if only the issue, VOLUME if only the volume; with no    *)
(* year the whole block is absent from the output, even if volume, issue   *)
(* or pages exist.                                                         *)
C16_YearBlock ==
    Formatted =>
        IF citation.year # 0
        THEN /\ YearBlock \in SegmentsOf(ref)
             /\ Cardinality({i \in 1..Len(ref) : ref[i] = ";"}) = 1
             /\ Cardinality({i \in 1..Len(ref) : ref[i] = ":"})
                  = IF citation.pages # <<>> THEN 1 ELSE 0
        ELSE Tokens(ref) \cap {";", ":", "(", ")", "v12", "i3", "p45-50"} = {}

\* a year and an issue, no volume and no pages: the block is YEAR;(ISSUE).
C16_Witness ==
    /\ Formatted
    /\ citation.year # 0
    /\ citation.volume = <<>>
    /\ citation.issue # <<>>
    /\ citation.pages = <<>>
    /\ <<"2", "0", "2", "0", ";", "(", "i3", ")", ".">> \in SegmentsOf(ref)

\* no year, but volume, issue and pages: nothing of them is in the output
C16_WitnessNoYear ==
    /\ Formatted
    /\ citation.year = 0
    /\ citation.volume # <<>>
    /\ citation.issue # <<>>
    /\ citation.pages # <<>>
    /\ citation.title = <<"T">>

----------------------------------------------------------------------------
(* A record with only a title.                                             *)

\* the record has a title and no other field
TitleOnly ==
    /\ citation.title # <<>>
    /\ citation.authors = <<>>
    /\ citation.journal = <<>> /\ citation.journal_iso_abbrev = <<>>
    /\ citation.year = 0
    /\ citation.volume = <<>> /\ citation.issue = <<>> /\ citation.pages = <<>>
    /\ citation.pmid = <<>> /\ citation.doi = <<>> /\ citation.url = <<>>

\* the title without its trailing periods
TitleCore ==
    LET t == citation.title
        keep == {m \in 1..Len(t) : t[m] # "."}
    IN IF keep = {} THEN <<>>
       ELSE SubSeq(t, 1, CHOOSE m \in keep : \A k \in keep : k <= m)

\* s without its leading and trailing blanks and with one blank for every
\* run of blanks
Squeezed(s) ==
    LET inner(i) == (\E a \in 1..(i - 1) : s[a] # " ")
                    /\ (\E b \in (i + 1)..Len(s) : s[b] # " ")
        at == SelectSeq([i \in 1..Len(s) |-> i],
                        LAMBDA i : s[i] # " " \/ (inner(i) /\ s[i - 1] # " "))
    IN [n \in 1..Len(at) |-> s[at[n]]]

(* C17, as claimed: format_vancouver_reference returns a string for every  *)
(* record, and for a record with only a title it returns exactly the title *)
(* with trailing periods stripped followed by one period.                  *)
C17_TitleOnlyExact ==
    /\ Formatted => ref \in Seq(STRING)
    /\ Formatted /\ TitleOnly => ref = TitleCore \o <<".">>

(* C17, amended: format_vancouver_reference returns a string for any       *)
(* record whose optional fields are absent in any combination; for one     *)
(* with only a title it returns the title with trailing periods stripped   *)
(* followed by one period, normalised as every reference is (leading and   *)
(* trailing whitespace trimmed, runs of whitespace collapsed to one        *)
(* blank), with no other segment; a title of periods only leaves nothing   *)
(* and the result is the empty string.                                     *)
C17_TitleOnlyNormalised ==
    /\ Formatted => ref \in Seq(STRING)
    /\ Formatted /\ TitleOnly =>
         ref = IF TitleCore = <<>> THEN <<>> ELSE Squeezed(TitleCore \o <<".">>)

\* a title with two trailing periods, alone in its record, came out with one
C17_Witness ==
    /\ Formatted
    /\ TitleOnly
    /\ citation.title = <<"T", ".", ".">>
    /\ ref = <<"T", ".">>

\* a record with no field at all came out as the empty string
C17_WitnessEmptyRecord ==
    /\ Formatted
    /\ citation.title = <<>>
    /\ citation.authors = <<>>
    /\ citation.pmid = <<>> /\ citation.doi = <<>> /\ citation.url = <<>>
    /\ ref = <<>>

----------------------------------------------------------------------------
(* jaccard.                                                                *)

\* jaccard has returned
Scored == pc = "scored"

(* C18: jaccard(A, B) is |A n B| / |A u B| whenever a set is non-empty and *)
(* 0.0 when both are empty; so it is within [0, 1], it is 0.0 for a        *)
(* non-empty set against the empty set, and jaccard(A, A) is 1.0 for every *)
(* non-empty A.                                                            *)
C18_JaccardIndex ==
    Scored =>
        /\ score.den > 0
        /\ fp_a # {} \/ fp_b # {} =>
             score.num * Cardinality(fp_a \cup fp_b)
               = Cardinality(fp_a \cap fp_b) * score.den
        /\ fp_a = {} /\ fp_b = {} => score.num = 0
        /\ 0 <= score.num /\ score.num <= score.den
        /\ (fp_a = {}) # (fp_b = {}) => score.num = 0
        /\ fp_a = fp_b /\ fp_a # {} => score.num = score.den

\* two sets that share one of three elements: the score is 1/3
C18_Witness ==
    /\ Scored
    /\ Cardinality(fp_a \cap fp_b) = 1
    /\ Cardinality(fp_a \cup fp_b) = 3
    /\ score.num * 3 = score.den

\* both sets empty: the score is 0.0
C18_WitnessEmpty ==
    /\ Scored
    /\ fp_a = {}
    /\ fp_b = {}
    /\ score.num = 0

----------------------------------------------------------------------------
(* winnow_fingerprints.                                                    *)

\* winnow_fingerprints has returned
Winnowed == pc = "winnowed"

\* a letter or digit, in either case
Alphanumeric(ch) == ch \in {"a", "A", "b", "B", "0"}

\* the number of tokens of the text: its maximal alphanumeric runs
TokenCount ==
    Cardinality({i \in 1..Len(doc) :
                    Alphanumeric(doc[i]) /\ (i = 1 \/ ~Alphanumeric(doc[i - 1]))})

(* C19: winnow_fingerprints returns the empty set for every text whose     *)
(* token count (lowercased maximal alphanumeric runs) is below k, the      *)
(* empty text and a text of punctuation or whitespace only included; for a *)
(* text with at least k tokens the result is non-empty.                    *)
C19_EmptyBelowK ==
    Winnowed =>
        /\ TokenCount < ngram_k => fps = {}
        /\ TokenCount >= ngram_k => fps # {}
        /\ (\A i \in 1..Len(doc) : doc[i] \in {" ", "."}) => fps = {}

\* a text of one token and punctuation, fingerprinted with k = 2
C19_Witness ==
    /\ Winnowed
    /\ ngram_k = 2
    /\ TokenCount = 1
    /\ \E i \in 1..Len(doc) : doc[i] = "."
    /\ fps = {}

\* a text of capitals only with exactly k tokens has a fingerprint
C19_WitnessAtK ==
    /\ Winnowed
    /\ TokenCount = ngram_k
    /\ \A i \in 1..Len(doc) : doc[i] \in {"B", " "}
    /\ fps # {}

----------------------------------------------------------------------------
(* The fingerprints against the window minima.                             *)

\* the shingle hashes of the text, in order
Hashes == ShingleHashes(WordTokens(doc), ngram_k)

\* hash x is at most hash y, as 64-bit numbers
AtMost(x, y) ==
    x = y \/ \E i \in 1..4 : x[i] < y[i] /\ \A j \in (i + 1)..4 : x[j] = y[j]

\* the start positions of the windows of `window` consecutive shingle hashes
Windows == 1..(Len(Hashes) - window + 1)

\* the values that are the minimum of some window
WindowMinima ==
    {h \in {Hashes[i] : i \in 1..Len(Hashes)} :
        \E i \in Windows :
            /\ \E j \in i..(i + window - 1) : Hashes[j] = h
            /\ \A j \in i..(i + window - 1) : AtMost(h, Hashes[j])}

(* C20: for every text with at least k tokens the fingerprint set is       *)
(* exactly the set of values that are the minimum of some window of        *)
(* `window` consecutive shingle hashes; a hash that is the minimum of no   *)
(* such window is never in the result, whatever the number of shingles.    *)
C20_ExactlyWindowMinima ==
    Winnowed /\ TokenCount >= ngram_k => fps = WindowMinima

(* C20, amended: for a text with more shingles than the window is long the *)
(* fingerprint set is exactly the set of the window minima, and a hash     *)
(* that is the minimum of no window is not in it; for a text with at least *)
(* k tokens and at most `window` shingles it is the set of all shingle     *)
(* hashes.                                                                 *)
C20_MinimaOrAllHashes ==
    Winnowed /\ TokenCount >= ngram_k =>
        IF Len(Hashes) > window
        THEN fps = WindowMinima
        ELSE fps = {Hashes[i] : i \in 1..Len(Hashes)}

\* three shingles and a window of two: one hash is the minimum of both
\* windows and the other is left out
C20_WitnessAboveWindow ==
    /\ Winnowed
    /\ ngram_k = 1
    /\ window = 2
    /\ Len(Hashes) = 3
    /\ Cardinality({Hashes[i] : i \in 1..3}) = 2
    /\ Cardinality(fps) = 1

----------------------------------------------------------------------------
(* similarity_report: what its result holds for each pair of the cross     *)
(* product of the two dicts.                                               *)

\* similarity_report has returned
Reported == pc = "reported"

\* the text has a character that trimming keeps
HasContent(t) == \E i \in 1..Len(t) : t[i] # " "

\* the pairs of the full cross product, by their positions in the dicts
Pairs == (1..Len(generated)) \X (1..Len(sources))

\* the score of a pair
PairScore(p) == SimilarityScore(generated[p[1]].text, sources[p[2]].text)

\* the positions of the result that hold the pair
EntriesFor(p) ==
    {n \in 1..Len(results) :
        /\ results[n].name_a = generated[p[1]].name
        /\ results[n].name_b = sources[p[2]].name}

\* the pair has content on both sides and its score is at least the threshold
Qualifying(p) ==
    /\ HasContent(generated[p[1]].text)
    /\ HasContent(sources[p[2]].text)
    /\ PairScore(p).num * threshold.den >= threshold.num * PairScore(p).den

(* C21: similarity_report returns an entry for a (generated, source) pair  *)
(* exactly when both texts are non-empty after trimming and the score is   *)
(* at least the threshold: a pair with an empty or whitespace-only side    *)
(* has no entry under any threshold, each qualifying pair of the full      *)
(* cross product has exactly one entry, and every entry is such a pair     *)
(* with its score.                                                         *)
C21_EntryIffQualifies ==
    Reported =>
        /\ \A p \in Pairs :
              Cardinality(EntriesFor(p)) = IF Qualifying(p) THEN 1 ELSE 0
        /\ \A n \in 1..Len(results) :
              \E p \in Pairs : n \in EntriesFor(p) /\ results[n].score = PairScore(p)

\* a report over a full cross product where one pair qualifies with a score
\* equal to the threshold, one is below it, and one has a blank side that a
\* threshold of zero would admit
C21_Witness ==
    /\ Reported
    /\ Len(generated) = 2
    /\ Len(sources) = 2
    /\ threshold = [num |-> 1, den |-> 2]
    /\ \E p \in Pairs : Qualifying(p) /\ PairScore(p) = threshold
    /\ \E p \in Pairs : ~Qualifying(p) /\ HasContent(generated[p[1]].text)
                        /\ HasContent(sources[p[2]].text)
    /\ \E p \in Pairs : ~HasContent(sources[p[2]].text) /\ sources[p[2]].text # <<>>
    /\ Len(results) = 1

\* with no threshold at all, a pair with a blank side is still left out
C21_WitnessZeroThreshold ==
    /\ Reported
    /\ threshold.num = 0
    /\ \E p \in Pairs : ~HasContent(generated[p[1]].text)
    /\ \E p \in Pairs : Qualifying(p) /\ PairScore(p).num = 0
    /\ Len(results) > 0

\* the scores of the list do not increase from one entry to the next
NonIncreasing(rs) ==
    \A n \in 1..(Len(rs) - 1) :
        rs[n].score.num * rs[n + 1].score.den >= rs[n + 1].score.num * rs[n].score.den

\* rs and qs hold the same entries, each as often
SameEntries(rs, qs) ==
    /\ Len(rs) = Len(qs)
    /\ \A r \in {rs[n] : n \in 1..Len(rs)} \cup {qs[n] : n \in 1..Len(qs)} :
          Cardinality({n \in 1..Len(rs) : rs[n] = r})
              = Cardinality({n \in 1..Len(qs) : qs[n] = r})

(* C22: the list similarity_report returns is ordered by non-increasing    *)
(* score, and the sort comes only after all pair scores are computed:      *)
(* while the loops run the list only grows at its end, the step that       *)
(* returns starts with an entry for every qualifying pair and only         *)
(* reorders them, and nothing is scored or added after it.                 *)
C22_SortedAfterAllScores ==
    /\ [](Reported => NonIncreasing(results))
    /\ [][pc' = "report" =>
            \/ results' = results
            \/ /\ Len(results') = Len(results) + 1
               /\ SubSeq(results', 1, Len(results)) = results]_vars
    /\ [][pc = "report" /\ pc' = "reported" =>
            /\ \A p \in Pairs : Qualifying(p) => Cardinality(EntriesFor(p)) = 1
            /\ SameEntries(results, results')]_vars
    /\ [][Reported => UNCHANGED <<results, score>>]_vars

\* a returned list of two entries whose first was scored last: the sort
\* moved it ahead of the entry appended before it
C22_Witness ==
    /\ Reported
    /\ Len(results) = 2
    /\ results[1].score # results[2].score
    /\ results[1].name_a = generated[Len(generated)].name
    /\ results[1].name_b = sources[2].name
    /\ results[2].name_b = sources[1].name
    /\ results[2].name_a = results[1].name_a

\* the number of tokens of a text: its maximal runs of letters and digits
TokensIn(t) ==
    Cardinality({i \in 1..Len(t) :
                    Alphanumeric(t[i]) /\ (i = 1 \/ ~Alphanumeric(t[i - 1]))})

\* the pairs whose generated text has content and is exactly the source text
EqualPairs ==
    {p \in Pairs : HasContent(generated[p[1]].text)
                   /\ generated[p[1]].text = sources[p[2]].text}

\* the pair has an entry in the returned list
Included(p) == EntriesFor(p) # {}

(* C23, as claimed: for every non-empty generated text that is exactly     *)
(* equal to a source text, similarity_report scores the pair 1.0 and       *)
(* includes it for every threshold at most 1.0.                            *)
C23_EqualTextScoresOne ==
    Reported =>
        \A p \in EqualPairs :
            /\ PairScore(p) = [num |-> 1, den |-> 1]
            /\ threshold.num <= threshold.den => Included(p)

(* C23, amended: a generated text of at least five tokens that is exactly  *)
(* equal to a source text scores 1.0 and is included for every threshold   *)
(* at most 1.0; an equal pair of non-empty texts of fewer than five tokens *)
(* has no fingerprints, scores 0.0 and is included only when the threshold *)
(* is at most 0.                                                           *)
C23_EqualTextOfFiveTokensScoresOne ==
    Reported =>
        \A p \in EqualPairs :
            IF TokensIn(generated[p[1]].text) >= 5
            THEN /\ PairScore(p).num = PairScore(p).den
                 /\ threshold.num <= threshold.den => Included(p)
            ELSE /\ PairScore(p).num = 0
                 /\ Included(p) <=> threshold.num <= 0

\* an equal pair of five-token texts returned under the threshold 1.0
C23_Witness ==
    /\ Reported
    /\ threshold = [num |-> 1, den |-> 1]
    /\ \E p \in EqualPairs : TokensIn(generated[p[1]].text) = 5 /\ Included(p)

\* an equal pair of two-token texts left out under the default threshold
C23_WitnessShort ==
    /\ Reported
    /\ threshold = [num |-> 3, den |-> 25]
    /\ \E p \in EqualPairs : TokensIn(generated[p[1]].text) = 2 /\ ~Included(p)

----------------------------------------------------------------------------
(* The maximum reference count: what the assembly and                      *)
(* check_reference_count make of it.                                       *)

\* check_reference_count has returned
Checked == pc = "checked"

\* the assembly has returned, checked or not
Assembled_ == pc \in {"returned", "done", "checked"}

(* C24: the maximum reference count is enforced neither on the pool nor by *)
(* the assembly: the run returns one reference per distinct cited identity *)
(* and the full body also when that number exceeds the maximum, and no     *)
(* warning exists before check_reference_count; check_reference_count      *)
(* returns exactly one warning when the number of references is strictly   *)
(* greater than journal.references.max_count and none otherwise.           *)
C24_MaxCountOnlyWarned ==
    /\ Assembled_ =>
          /\ Len(refs) = Cardinality(OccIds)
          /\ \A sec \in {ProcessedSeq[n] : n \in 1..Len(ProcessedSeq)} :
                sec \in DOMAIN numbered
    /\ ~Checked => warnings = <<>>
    /\ Checked =>
          /\ Len(warnings) = IF Len(refs) > max_count THEN 1 ELSE 0
          /\ \A n \in 1..Len(warnings) :
                warnings[n] = [count |-> Len(refs), max |-> max_count]

\* a reference list above the maximum, returned whole and reported by one
\* warning
C24_Witness ==
    /\ Checked
    /\ max_count = 1
    /\ Len(refs) = 2
    /\ Cardinality(OccIds) = 2
    /\ Len(warnings) = 1

\* a pool above the maximum of its plan is assembled all the same
C24_WitnessPool ==
    /\ Checked
    /\ Len(selected) > plan_max_count
    /\ Len(refs) = 1

\* a reference list exactly as long as the maximum draws no warning
C24_WitnessAtMax ==
    /\ Checked
    /\ Len(refs) = max_count
    /\ warnings = <<>>

----------------------------------------------------------------------------
(* Two interleaved runs against each run alone.                            *)

\* what the call of frame f returns when it runs alone
Alone(f) ==
    NumberDraftsAndBuildReferences(f.drafts, f.include_abstract_citations,
                                   f.in_text_format, f.selected)

\* the call of frame f has returned what it returns alone
AsAlone(f) ==
    f.pc = "returned" =>
        /\ f.numbered = Alone(f).numbered
        /\ f.refs = Alone(f).refs

\* the inputs of a frame
InputsOf(f) ==
    <<f.drafts, f.include_abstract_citations, f.in_text_format, f.selected>>

(* C25: two runs of number_drafts_and_build_references, each on its own    *)
(* inputs, with their steps interleaved in any order, each return exactly  *)
(* what they return alone: the map and the counter belong to the run, a    *)
(* step of the running call leaves the frame of the suspended call as it   *)
(* is, and a switch changes neither frame.                                 *)
C25_InterleavedRunsAsAlone ==
    /\ [](turn \in {1, 2} => AsAlone(Frame) /\ AsAlone(other))
    /\ [][turn' = turn => /\ other' = other
                          /\ InputsOf(Frame') = InputsOf(Frame)]_vars
    /\ [][turn' # turn => other' = Frame /\ Frame' = other]_vars

\* both calls have returned, each with two numbers, after the second call
\* started while the first was between two markers
C25_Witness ==
    /\ turn \in {1, 2}
    /\ pc = "returned"
    /\ other.pc = "returned"
    /\ Len(refs) = 2
    /\ Len(other.refs) = 2
    /\ drafts # other.drafts
    /\ numbered # other.numbered

\* the suspended call is between two markers while the running call binds
C25_WitnessMidway ==
    /\ turn = 2
    /\ pc = "sub"
    /\ other.pc = "sub"
    /\ other.next_num = 2
    /\ next_num = 2
    /\ key_to_num # other.key_to_num

----------------------------------------------------------------------------
(* The chat client: the requests it posts and how a call ends.             *)

\* the call has ended
ChatDone == pc = "chat_done"

\* the response is a failure for chat_text: a transport exception, an error
\* status, or a body that is not a completion
FailedText(r) == r.raised # "None" \/ r.status >= 400 \/ r.body = "malformed"

(* C26: chat_text ends after at most 3 requests.  It returns the text of   *)
(* the first response with a status below 400 and a well-formed body and   *)
(* posts nothing after it; every failure (error status, transport          *)
(* exception, malformed body) is followed by another request while fewer   *)
(* than 3 were posted; it raises LLMError exactly when all 3 requests      *)
(* failed, and ends with no other exception.                               *)
C26_ChatTextThreeRequests ==
    /\ <>ChatDone
    /\ [](Len(sent) <= 3)
    /\ [](\A n \in 1..(Len(sent) - 1) : FailedText(sent[n].response))
    /\ [](ChatDone <=> outcome.kind # "none")
    /\ [](outcome.kind = "returned" =>
            /\ ~FailedText(sent[Len(sent)].response)
            /\ outcome.value = sent[Len(sent)].response.body)
    /\ [](outcome.kind = "raised" =>
            /\ outcome.value = "LLMError"
            /\ Len(sent) = 3
            /\ \A n \in 1..3 : FailedText(sent[n].response))
    /\ [](ChatDone /\ Len(sent) = 3 /\ FailedText(sent[3].response) =>
            outcome.kind = "raised")
    /\ [][ChatDone => UNCHANGED <<sent, outcome>>]_vars

\* a transport exception and a malformed body, then a text at the third request
C26_Witness ==
    /\ ChatDone
    /\ Len(sent) = 3
    /\ sent[1].response.raised = "Timeout"
    /\ sent[2].response.body = "malformed"
    /\ outcome = [kind |-> "returned", value |-> "prose"]

\* three failures of the three kinds, then LLMError
C26_WitnessRaised ==
    /\ ChatDone
    /\ sent[1].response.status = 500
    /\ sent[2].response.raised = "ConnectionError"
    /\ sent[3].response.body = "malformed"
    /\ outcome = [kind |-> "raised", value |-> "LLMError"]
    /\ slept = 18

\* the response is a failure for chat_json: it fails as for chat_text, or
\* its content holds no JSON object
FailedJson(r) == FailedText(r) \/ r.body = "prose"

\* the requests of attempt a, oldest first
OfAttempt(a) == SelectSeq(sent, LAMBDA q : q.attempt = a)

\* the requests of an attempt are the request with response_format and,
\* only behind a 400 or 404 to it, one request without
WellOrdered(qs) ==
    /\ Len(qs) <= 2
    /\ Len(qs) >= 1 => qs[1].response_format
    /\ Len(qs) = 2 => /\ ~qs[2].response_format
                      /\ qs[1].response.raised = "None"
                      /\ qs[1].response.status \in {400, 404}

\* the attempt has failed: its last request failed and no fallback is due
FailedAttempt(a) ==
    LET qs == OfAttempt(a)
    IN /\ qs # <<>>
       /\ FailedJson(qs[Len(qs)].response)
       /\ Len(qs) = 1 => qs[1].response.status \notin {400, 404}

(* C27: chat_json ends after at most 3 attempts and at most 6 requests.    *)
(* Every attempt sends the request with response_format first and one      *)
(* request without it only when the first one returned 400 or 404, never   *)
(* before it; the call returns the parsed JSON of the first response that  *)
(* succeeds and parses, and raises LLMError after 3 failed attempts.       *)
C27_ChatJsonAttempts ==
    /\ <>ChatDone
    /\ [](Len(sent) <= 6 /\ attempt <= 3)
    /\ [](\A n \in 1..Len(sent) : sent[n].attempt \in 0..2)
    /\ [](\A a \in 0..2 : WellOrdered(OfAttempt(a)))
    /\ [][\A q \in {sent'[n] : n \in 1..Len(sent')} \ {sent[n] : n \in 1..Len(sent)} :
            ~q.response_format =>
                /\ sent # <<>>
                /\ sent[Len(sent)].response_format
                /\ sent[Len(sent)].attempt = q.attempt
                /\ sent[Len(sent)].response.status \in {400, 404}]_vars
    /\ [](\A n \in 1..(Len(sent) - 1) : FailedJson(sent[n].response))
    /\ [](outcome.kind = "returned" =>
            /\ ~FailedJson(sent[Len(sent)].response)
            /\ outcome.value = "a")
    /\ [](outcome.kind = "raised" =>
            /\ outcome.value = "LLMError"
            /\ \A a \in 0..2 : FailedAttempt(a))
    /\ [](ChatDone <=> outcome.kind # "none")
    /\ [](ChatDone /\ (\A a \in 0..2 : FailedAttempt(a)) => outcome.kind = "raised")
    /\ [][ChatDone => UNCHANGED <<sent, outcome>>]_vars

\* three attempts of two requests each, then LLMError
C27_Witness ==
    /\ ChatDone
    /\ Len(sent) = 6
    /\ \A a \in 0..2 : Len(OfAttempt(a)) = 2
    /\ outcome = [kind |-> "raised", value |-> "LLMError"]

\* a 429 is followed by the next attempt, not by a fallback, and the JSON
\* found inside the text of the fallback of that attempt is returned
C27_WitnessSalvaged ==
    /\ ChatDone
    /\ Len(sent) = 3
    /\ sent[1].response.status = 429
    /\ sent[2].response.status = 404
    /\ sent[3].response.body = "x{a}x"
    /\ ~sent[3].response_format
    /\ outcome.kind = "returned"

----------------------------------------------------------------------------
(* Renumbering applied to its own output.                                  *)

\* the sections the run has numbered
NumberedSections == {ProcessedSeq[n] : n \in 1..Len(ProcessedSeq)}

\* a position of the text where a well-formed placeholder opens
HasPlaceholder(text) == \E a \in 1..Len(text) : WellFormedAt(text, a)

(* C28: renumbering is idempotent on its output: the renumbered text of    *)
(* every processed section holds no well-formed placeholder, so            *)
(* re_number_citations applied to it, in either style, with the map and    *)
(* counter of the run or with fresh ones, returns the text unchanged,      *)
(* binds no identity and leaves the counter as it is.                      *)
C28_RenumberingIdempotent ==
    Returned =>
        \A sec \in NumberedSections :
            /\ sec \in DOMAIN numbered
            /\ ~HasPlaceholder(numbered[sec])
            /\ \A fmt \in {"bracket", "paren"} :
                  /\ ReNumberCitations(numbered[sec], fmt, key_to_num, next_num, 1, <<>>)
                        = [new_text |-> numbered[sec], key_to_num |-> key_to_num,
                           next_num |-> next_num]
                  /\ ReNumberCitations(numbered[sec], fmt, EmptyMap, 1, 1, <<>>)
                        = [new_text |-> numbered[sec], key_to_num |-> EmptyMap,
                           next_num |-> 1]

\* a section with two placeholders and a tag without identifier: the tag is
\* still in the renumbered text, next to the numbers
C28_Witness ==
    /\ Returned
    /\ \E sec \in NumberedSections :
          /\ Len(Placeholders(Strip(drafts[sec]))) = 2
          /\ \E i \in 1..Len(numbered[sec]) : EmptyIdentAt(numbered[sec], i)
    /\ next_num = 3

----------------------------------------------------------------------------
(* Winnowing: what the fingerprint set covers.                             *)

\* the set of all shingle hashes of the text
HashSet == {Hashes[i] : i \in 1..Len(Hashes)}

\* a minimum of the window that starts at i is in the fingerprint set
Covered(i) ==
    \E j \in i..(i + window - 1) :
        /\ Hashes[j] \in fps
        /\ \A m \in i..(i + window - 1) : AtMost(Hashes[j], Hashes[m])

(* C29: for a text with more shingles than `window`, every window of       *)
(* `window` consecutive shingle hashes has its minimum in the set that     *)
(* winnow_fingerprints returns; for every text the returned set is a       *)
(* subset of the shingle hashes.                                           *)
C29_WindowsCovered ==
    Winnowed =>
        /\ fps \subseteq HashSet
        /\ Len(Hashes) > window => \A i \in Windows : Covered(i)

\* three shingles under a window of two whose two windows have different
\* minima: both are in the set
C29_Witness ==
    /\ Winnowed
    /\ window = 2
    /\ Len(Hashes) = 3
    /\ Hashes[2] = Hashes[3]
    /\ Hashes[1] # Hashes[2]
    /\ AtMost(Hashes[1], Hashes[2])
    /\ Cardinality(fps) = 2
    /\ \A i \in Windows : Covered(i)

\* at most `window` shingles: the set is within the shingle hashes
C29_WitnessShort ==
    /\ Winnowed
    /\ window = 3
    /\ Len(Hashes) = 2
    /\ fps # {}
    /\ fps \subseteq HashSet

----------------------------------------------------------------------------
(* The identity -> record lookup when pool entries collide.                *)

\* the pool entry that comes last among those carrying id
LastCandidate(id) == CHOOSE i \in Candidates(id) : \A j \in Candidates(id) : j <= i

\* the numbers under which the record of pool entry i is listed
ListedAt(i) == {n \in 1..Len(refs) : Lists(n, i)}

(* C30: the lookup from identity to record does not deduplicate and        *)
(* settles collisions by pool order: of the pool entries that carry a      *)
(* cited PMID (or DOI) after trimming, the one that comes last in          *)
(* citation_plan.selected is the one formatted under the identity's        *)
(* number; and a record that has a PMID and a DOI is found under either    *)
(* identity, each cited identity having its own entry.                     *)
C30_LaterPoolEntryWins ==
    Returned =>
        /\ Rendered
        /\ \A m \in 1..Len(Occ) :
              Candidates(Occ[m].id) # {} =>
                  Lists(Occ[m].num, LastCandidate(Occ[m].id))
        /\ \A i \in 1..Len(selected) :
              LET c == selected[i].citation
                  byPmid == {m \in 1..Len(Occ) : Occ[m].id = <<"PMID", Strip(c.pmid)>>}
                  byDoi == {m \in 1..Len(Occ) : Occ[m].id = <<"DOI", Strip(c.doi)>>}
                  last == {m \in byPmid \cup byDoi : LastCandidate(Occ[m].id) = i}
              IN c.pmid # <<>> /\ c.doi # <<>> =>
                    /\ \A m \in last : Lists(Occ[m].num, i)
                    /\ {Occ[m].num : m \in last} \subseteq ListedAt(i)
                    /\ (\E m \in last \cap byPmid : \E n \in last \cap byDoi :
                           Occ[m].num # Occ[n].num)
                          => Cardinality(ListedAt(i)) >= 2

\* two pool entries with the same PMID after trimming and different titles:
\* the cited PMID is listed with the second one
C30_Witness ==
    /\ Returned
    /\ Rendered
    /\ Len(selected) = 2
    /\ \E m \in 1..Len(Occ) :
          /\ Candidates(Occ[m].id) = {1, 2}
          /\ selected[1].citation.pmid # selected[2].citation.pmid
          /\ FormatVancouverReference(selected[1].citation)
                # FormatVancouverReference(selected[2].citation)
          /\ Lists(Occ[m].num, 2)
          /\ ~Lists(Occ[m].num, 1)

\* one record cited by its PMID and by its DOI: listed under both numbers
C30_WitnessBothIdentities ==
    /\ Returned
    /\ Rendered
    /\ Len(selected) = 1
    /\ Cardinality(OccIds) = 2
    /\ Cardinality(ListedAt(1)) = 2

====
